---- MODULE Spec2Model ----
(***************************************************************************)
(* kvmflows: the bulk HTTP fetch engine (clients/http_client.py,           *)
(* BulkHttpClient) as a state machine.  One BulkHttpClient instance is     *)
(* modelled; bulk_get, bulk_get_generator and bulk_get_stream calls are    *)
(* made on it, possibly at the same time.  asyncio is cooperative: a       *)
(* coroutine runs without interruption between two suspension points, so   *)
(* every action is the code between two awaits.                            *)
(*                                                                         *)
(* On top of it: bulk_upsert_entries with its three tiers and the entry    *)
(* table (SpecUpsert; two callers at once in SpecOverlap), update_entries  *)
(* with one process_area task per area, reading search and get_entries     *)
(* (SpecSync), the grid of process_area on its own (SpecPlan),             *)
(* get_entries read directly (SpecEntries), a search or get_entries stage  *)
(* with its own client and fetch tasks (SpecStage), bulk_get calls alone   *)
(* (SpecBulkGet), and the batches that the two sync flows hand to the      *)
(* upsert when the remote service repeats an entry (SpecBatch).            *)
(***************************************************************************)
EXTENDS Integers, Sequences, FiniteSets, TLC

\* ------------------------------------------------------------------ bounds
MaxCalls == 2        \* calls made on the instance (they may overlap)
MaxUrls == 2         \* urls handed to the instance, over all its calls
MaxConcurrency == 2  \* concurrency given to __init__
MaxRetries == 2      \* max_retries given to __init__, calls overlapping
MaxRetriesSolo == 4  \* max_retries given to __init__, get_with_retries alone
MaxDelay == 2        \* retry_delay given to __init__, in whole time units
MaxBatch == 2        \* batch_size given to bulk_get_stream
MaxCloses == 1       \* close_async calls that find an open client
MaxAreas == 2        \* areas of config.areas
MaxLatChunks == 3    \* lat_n_chunks of an area
MaxLngChunks == 2    \* lng_n_chunks of an area
MaxGridCells == 3    \* grid cells of all the areas together
MaxVisible == 2      \* visible entries of one search result
MaxRecords == 3      \* records handed to direct bulk_upsert_entries calls, over all calls
MaxCoord == 3        \* lats and lngs of an area, in tenths of a degree, when the grid is checked
MaxEntryIds == 4     \* ids given to a direct get_entries call
MaxChunkSize == 3    \* chunk_size given to a direct get_entries call
MaxOverlap == 2      \* records of one call when two callers overlap
MaxRawIds == 2       \* distinct ids that one answer of the remote service draws from

CallIds == 1..MaxCalls
UrlIdx == 1..MaxUrls

None == -1           \* batch_size=None, _async_client=None

\* What one request attempt can come to: a 2xx response whose body is taken
\* (parsed JSON or {"text": ...}), a non-2xx status (raise_for_status), a
\* transport error, a 2xx response declaring JSON whose body does not parse.
OkResponses == {"ok"}
FailResponses == {"status", "transport", "decode"}
Responses == OkResponses \cup FailResponses

VARIABLES
    max_retries,    \* self.max_retries
    retry_delay,    \* self.retry_delay
    concurrency,    \* self.concurrency
    async_client,   \* self._async_client: None or the id of an httpx.AsyncClient
    clients_made,   \* httpx.AsyncClient objects constructed so far (ids 1..clients_made)
    closed,         \* ids of the clients on which aclose() has run
    call,           \* call[c]: the frame of call c (bulk_get / generator / stream)
    task            \* task[c][i]: the get_with_semaphore task of urls[i-1] of call c

VARIABLES
    store,          \* the entry table: store[id] is the row of id (db / async_db)
    upsert,         \* upsert[a]: the frame of bulk_upsert_entries called by the
                    \* task of area a; a direct call uses frame 1
    area,           \* area[a]: config.areas[a-1] and the frame of its process_area task
    orch,           \* the frame of update_entries
    entries,        \* the frame of a get_entries generator that is read directly
    stage           \* the frame of a search / get_entries generator that owns the
                    \* BulkHttpClient, when the fetch engine under it is looked at

vars == <<max_retries, retry_delay, concurrency, async_client, clients_made,
          closed, call, task, store, upsert, area, orch, entries, stage>>

\* the fetch engine's variables and those of the flows built on it
http == <<max_retries, retry_delay, concurrency, async_client, clients_made,
          closed, call, task>>
flow == <<store, upsert, area, orch, entries, stage>>

config == <<max_retries, retry_delay, concurrency>>

\* ------------------------------------------------------------ initial state
NoTask == [pc |-> "none", attempts |-> 0, client |-> None, delays |-> <<>>,
           outcome |-> "none"]

IdleCall == [kind |-> "idle", pc |-> "idle", n |-> 0, arg |-> None,
             batch_size |-> None,
             lo |-> 0, hi |-> 0, sem |-> 0, waiters |-> <<>>,
             pending |-> {}, done |-> {}, round |-> 0, queue |-> <<>>,
             out |-> <<>>, completed |-> <<>>]

\* areas, grid cells of an area, record ids
Areas == 1..MaxAreas
CellsOf(lat_n_chunks, lng_n_chunks) == (lat_n_chunks - 1) * (lng_n_chunks - 1)
MaxCells == CellsOf(MaxLatChunks, MaxLngChunks)
\* StaleId is the id of a record that no search returns
StaleId == 1 + (IF MaxGridCells * MaxVisible >= MaxRecords
                THEN MaxGridCells * MaxVisible ELSE MaxRecords)
Ids == 1..StaleId

\* a row of the entry table: `title` stands for the columns that the conflict
\* clause maps to themselves, `founded_on` for the one it maps to
\* str(Entry.founded_on)
NoRow == [present |-> FALSE, rows |-> 0, title |-> "", founded_on |-> ""]

IdleUpsert == [pc |-> "idle", records |-> <<>>, idx |-> 0, existing |-> FALSE,
               success_count |-> 0, error_count |-> 0, count |-> None,
               tiers |-> <<>>, results |-> <<>>, raised |-> {}, given |-> 0,
               faulted |-> FALSE, atomic |-> "none",
               before |-> [i \in Ids |-> NoRow],
               prev |-> [records |-> <<>>, count |-> None]]

IdleArea == [pc |-> "idle", lats |-> <<0, 0>>, lngs |-> <<0, 0>>,
             lat_n_chunks |-> 1, lng_n_chunks |-> 1,
             search_params |-> <<>>,
             pending |-> {}, fetched |-> <<>>, yielded |-> <<>>,
             search |-> "none", cell |-> 0, visible |-> 0,
             undecoded |-> {},
             area_upserted |-> 0, max_numbers |-> 0]

IdleOrch == [pc |-> "idle", n_areas |-> 0, total_upserted |-> 0,
             max_numbers |-> 0, successful_areas |-> 0, failed_areas |-> 0]

\* no flow is running
IdleEntries == [pc |-> "idle", entry_ids |-> <<>>, chunk_size |-> 0,
                id_strs |-> <<>>, pending |-> {}, fetched |-> <<>>,
                yielded |-> <<>>]

IdleStage == [pc |-> "idle", kind |-> "none", taken |-> 0, yielded |-> <<>>]

FlowIdle ==
    /\ store = [i \in Ids |-> NoRow]
    /\ upsert = [a \in Areas |-> IdleUpsert]
    /\ entries = IdleEntries
    /\ stage = IdleStage
    /\ area = [a \in Areas |-> IdleArea]
    /\ orch = IdleOrch

Init ==
    /\ FlowIdle
    /\ max_retries \in 0..MaxRetries
    /\ retry_delay \in 1..MaxDelay
    /\ concurrency \in 0..MaxConcurrency
    /\ async_client = None
    /\ clients_made = 0
    /\ closed = {}
    /\ call = [c \in CallIds |-> IdleCall]
    /\ task = [c \in CallIds |-> [i \in UrlIdx |-> NoTask]]

\* ------------------------------------------------------------------ helpers
Min(a, b) == IF a <= b THEN a ELSE b

RECURSIVE SumSeq(_)
SumSeq(s) == IF s = <<>> THEN 0 ELSE Head(s) + SumSeq(Tail(s))

\* lo+1, lo+2, ..., hi as a sequence
Range(lo, hi) == [k \in 1..(IF hi > lo THEN hi - lo ELSE 0) |-> lo + k]

BatchUrlsNonEmpty(lo, hi) == IF hi > lo THEN Range(lo, hi) ELSE <<lo + 1>>

\* `for url in urls` over urls[lo:hi]: the urls a task is made for, in order
BatchUrls(lo, hi) == Range(lo, hi)

SeqRange(s) == {s[k] : k \in 1..Len(s)}

IsFinal(t) == t.pc \in {"done", "raised"}

\* 2 to the power k
RECURSIVE Pow2(_)
Pow2(k) == IF k <= 0 THEN 1 ELSE 2 * Pow2(k - 1)

AfterFailureEarly(t, kind) ==
    IF t.attempts + 1 >= max_retries
    THEN [t EXCEPT !.pc = "done", !.outcome = kind]
    ELSE [t EXCEPT !.pc = "sleep",
                   !.delays = Append(@, retry_delay * t.attempts)]

AfterFailureExponential(t, kind) ==
    IF t.attempts = max_retries
    THEN [t EXCEPT !.pc = "done", !.outcome = kind]
    ELSE [t EXCEPT !.pc = "sleep",
                   !.delays = Append(@, retry_delay * Pow2(t.attempts - 1))]

AfterFailureRaise(t, kind) ==
    IF t.attempts = max_retries
    THEN [t EXCEPT !.pc = "raised", !.outcome = kind]
    ELSE [t EXCEPT !.pc = "sleep",
                   !.delays = Append(@, retry_delay * t.attempts)]

\* the code after request attempt number t.attempts failed with error `kind`:
\* the except branches of get_with_retries and the sleep, lines 44-64
AfterFailure(t, kind) ==
    IF t.attempts = max_retries
    THEN [t EXCEPT !.pc = "done", !.outcome = kind]
    ELSE [t EXCEPT !.pc = "sleep",
                   !.delays = Append(@, retry_delay * t.attempts)]

\* a gate whose slots are never given back
ReleasedNever(cl, i, t) ==
    IF IsFinal(t) THEN [cl EXCEPT !.completed = Append(@, i)] ELSE cl

\* a gate that is given back for the time of a backoff sleep
ReleasedForSleep(cl, i, t) ==
    IF IsFinal(t) \/ t.pc = "sleep"
    THEN [cl EXCEPT !.sem = IF cl.kind = "get_with_retries" THEN @ ELSE @ + 1,
                    !.completed = IF IsFinal(t) THEN Append(@, i) ELSE @]
    ELSE cl

\* `async with semaphore` exit: release() when the task has its final outcome
Released(cl, i, t) ==
    IF IsFinal(t)
    THEN [cl EXCEPT !.sem = IF cl.kind = "get_with_retries" THEN @ ELSE @ + 1,
                    !.completed = Append(@, i)]
    ELSE cl

\* bulk_get lines 77-78 / bulk_get_generator lines 96-104: a fresh semaphore
\* and one get_with_semaphore task per url of urls[lo:hi], in list order
NewTasks(tk, lo, hi) ==
    [i \in UrlIdx |-> IF i \in SeqRange(BatchUrls(lo, hi))
                      THEN [NoTask EXCEPT !.pc = "waiting"] ELSE tk[i]]

WithGateWide(cl, lo, hi) ==
    [cl EXCEPT !.sem = concurrency + 1, !.waiters = BatchUrls(lo, hi),
               !.lo = lo, !.hi = hi]

\* semaphore = asyncio.Semaphore(self.concurrency), lines 77 and 96; the
\* tasks are run in the order of their creation
WithGate(cl, lo, hi) ==
    [cl EXCEPT !.sem = concurrency, !.waiters = BatchUrls(lo, hi),
               !.lo = lo, !.hi = hi]

\* --------------------------------------------------------- get_with_retries
\* A task reaches `async with semaphore` with a free slot and no earlier
\* waiter, takes the slot and runs get_with_retries up to its first await.
\* _get_async_client (lines 23-26): the client is made on first use
GetAsyncClient ==
    /\ async_client' = IF async_client = None THEN clients_made + 1 ELSE async_client
    /\ clients_made' = IF async_client = None THEN clients_made + 1 ELSE clients_made

\* get_with_retries from its entry to its first await (lines 31-35): with
\* max_retries = 0 the loop body never runs and line 67 returns an Exception
Started(t) ==
    LET t0 == [t EXCEPT !.client = async_client'] IN
    IF max_retries = 0
    THEN [t0 EXCEPT !.pc = "done", !.outcome = "exhausted"]
    ELSE [t0 EXCEPT !.pc = "request", !.attempts = 1]

TaskAdmit(c) ==
    LET cl == call[c] IN
    /\ cl.waiters # <<>>
    /\ cl.sem > 0
    /\ GetAsyncClient
    /\ LET i == Head(cl.waiters)
           t1 == Started(task[c][i])
           cl1 == [cl EXCEPT !.sem = @ - 1, !.waiters = Tail(@)]
       IN /\ task' = [task EXCEPT ![c][i] = t1]
          /\ call' = [call EXCEPT ![c] = Released(cl1, i, t1)]
    /\ UNCHANGED <<flow, config, closed>>

\* The response (or the error) of the request in flight arrives.
TaskRespond(c, i, resp) ==
    LET t == task[c][i]
        t1 == IF resp \in OkResponses
              THEN [t EXCEPT !.pc = "done", !.outcome = resp]
              ELSE AfterFailure(t, resp)
    IN /\ t.pc = "request"
       /\ task' = [task EXCEPT ![c][i] = t1]
       /\ call' = [call EXCEPT ![c] = Released(call[c], i, t1)]
       /\ UNCHANGED <<flow, config, async_client, clients_made, closed>>

\* asyncio.sleep returns: the next attempt.  The client is the one fetched
\* before the loop (line 32); a closed client refuses the request at once.
TaskWake(c, i) ==
    LET t == task[c][i]
        t0 == [t EXCEPT !.attempts = @ + 1]
        t1 == IF t.client \in closed
              THEN AfterFailure(t0, "closed")
              ELSE [t0 EXCEPT !.pc = "request"]
    IN /\ t.pc = "sleep"
       /\ task' = [task EXCEPT ![c][i] = t1]
       /\ call' = [call EXCEPT ![c] = Released(call[c], i, t1)]
       /\ UNCHANGED <<flow, config, async_client, clients_made, closed>>

\* ----------------------------------------------------------------- bulk_get
RECURSIVE UrlsGiven(_)
UrlsGiven(c) == IF c = 0 THEN 0 ELSE call[c].n + UrlsGiven(c - 1)

CanCall(c, n) ==
    /\ call[c].kind = "idle"
    /\ c > 1 => call[c - 1].kind # "idle"
    /\ UrlsGiven(MaxCalls) + n <= MaxUrls

\* get_with_retries(url) called on its own, without a gate
CallGetWithRetries(c) ==
    /\ CanCall(c, 1)
    /\ GetAsyncClient
    /\ LET t1 == Started(NoTask)
           cl == [IdleCall EXCEPT !.kind = "get_with_retries", !.pc = "running",
                                  !.n = 1, !.hi = 1]
       IN /\ task' = [task EXCEPT ![c][1] = t1]
          /\ call' = [call EXCEPT ![c] = Released(cl, 1, t1)]
    /\ UNCHANGED <<flow, config, closed>>

\* the awaiting caller gets what get_with_retries returned
GetWithRetriesReturn(c) ==
    /\ call[c].kind = "get_with_retries" /\ call[c].pc = "running"
    /\ IsFinal(task[c][1])
    /\ call' = [call EXCEPT ![c].pc = IF task[c][1].pc = "raised"
                                       THEN "raised" ELSE "returned",
                            ![c].out = IF task[c][1].pc = "raised"
                                        THEN <<>> ELSE <<<<1, task[c][1].outcome>>>>]
    /\ UNCHANGED <<flow, config, async_client, clients_made, closed, task>>

CallBulkGet(c, n) ==
    /\ CanCall(c, n)
    /\ call' = [call EXCEPT ![c] =
                  WithGate([IdleCall EXCEPT !.kind = "bulk_get", !.pc = "gather",
                                            !.n = n], 0, n)]
    /\ task' = [task EXCEPT ![c] = NewTasks(@, 0, n)]
    /\ UNCHANGED <<flow, config, async_client, clients_made, closed>>

\* the outcomes of urls[lo:hi] from the last url to the first
GatheredLatestFirst(c, lo, hi) ==
    [k \in 1..(hi - lo) |-> <<hi + 1 - k, task[c][hi + 1 - k].outcome>>]

GatheredAsCompleted(c, lo, hi) ==
    LET done == SelectSeq(call[c].completed, LAMBDA i : lo < i /\ i <= hi)
    IN [k \in 1..Len(done) |-> <<done[k], task[c][done[k]].outcome>>]

\* what gather(..., return_exceptions=True) gives for urls[lo:hi]: the
\* outcome of each task (a raised exception too), in the order of the list
Gathered(c, lo, hi) ==
    [k \in 1..(hi - lo) |-> <<lo + k, task[c][lo + k].outcome>>]

AllFinal(c, lo, hi) == \A i \in (lo + 1)..hi : IsFinal(task[c][i])

BulkGetReturn(c) ==
    LET cl == call[c] IN
    /\ cl.kind = "bulk_get" /\ cl.pc = "gather"
    /\ AllFinal(c, cl.lo, cl.hi)
    /\ call' = [call EXCEPT ![c].pc = "returned",
                            ![c].out = Gathered(c, cl.lo, cl.hi)]
    /\ UNCHANGED <<flow, config, async_client, clients_made, closed, task>>

\* ------------------------------------------------------- bulk_get_generator
\* First __anext__: lines 95-111, every task is created, then the generator
\* waits for the first completion (an empty url list ends the sequence).
CallGenerator(c, n) ==
    /\ CanCall(c, n)
    /\ call' = [call EXCEPT ![c] =
                  WithGate([IdleCall EXCEPT !.kind = "generator",
                                            !.pc = IF n = 0 THEN "finished" ELSE "wait",
                                            !.n = n,
                                            !.pending = 1..n], 0, n)]
    /\ task' = [task EXCEPT ![c] = NewTasks(@, 0, n)]
    /\ UNCHANGED <<flow, config, async_client, clients_made, closed>>

\* asyncio.wait(pending, FIRST_COMPLETED) returns: `done` is the SET of the
\* pending tasks that are complete by now, `pending` the others (line 111).
DoneSetEager(c, pend) == pend

\* asyncio.wait's `done`: the tasks of `pend` that are complete
DoneSet(c, pend) == {i \in pend : IsFinal(task[c][i])}

GenWake(c) ==
    LET cl == call[c]
        dn == DoneSet(c, cl.pending)
    IN /\ cl.kind = "generator" /\ cl.pc = "wait"
       /\ dn # {}
       /\ call' = [call EXCEPT ![c].pc = "yield", ![c].done = dn,
                               ![c].pending = cl.pending \ dn,
                               ![c].round = @ + 1]
       /\ UNCHANGED <<flow, config, async_client, clients_made, closed, task>>

\* where the generator goes when the consumer asks for the next outcome
AfterYield(dn, pend) ==
    IF dn # {} THEN "yield" ELSE IF pend # {} THEN "wait" ELSE "finished"

\* `for completed_task in done` (lines 114-117): the iteration order of a set
\* is not specified, so any member of `done` may come next.  result() of a
\* task that raised raises out of the generator.
GenYield(c, i) ==
    LET cl == call[c]
        dn == cl.done \ {i}
    IN /\ cl.kind = "generator" /\ cl.pc = "yield"
       /\ i \in cl.done
       /\ call' = IF task[c][i].pc = "raised"
                  THEN [call EXCEPT ![c].pc = "raised"]
                  ELSE [call EXCEPT ![c].done = dn,
                                    ![c].out = Append(@, <<i, task[c][i].outcome, cl.round>>),
                                    ![c].pc = AfterYield(dn, cl.pending)]
       /\ UNCHANGED <<flow, config, async_client, clients_made, closed, task>>

\* The consumer stops iterating after some outcomes: the generator stays
\* suspended at its yield (or is closed there); no line cancels a task.
AbandonedTasksCancelled(tk) ==
    [i \in UrlIdx |-> IF tk[i].pc \in {"waiting", "request", "sleep"}
                      THEN [tk[i] EXCEPT !.pc = "cancelled"] ELSE tk[i]]

AbandonedTasks(tk) == tk

GenAbandon(c) ==
    LET cl == call[c] IN
    /\ cl.kind = "generator" /\ cl.pc \in {"yield", "wait"}
    /\ cl.out # <<>>
    /\ call' = [call EXCEPT ![c].pc = "abandoned"]
    /\ task' = [task EXCEPT ![c] = AbandonedTasks(@)]
    /\ UNCHANGED <<flow, config, async_client, clients_made, closed>>

\* ---------------------------------------------------------- bulk_get_stream
BatchSizes == {None} \cup (0..MaxBatch)

EffectiveBatchSingle(bs) == IF bs = None THEN concurrency ELSE bs

\* lines 139-140
EffectiveBatch(bs) == IF bs = None THEN concurrency * 2 ELSE bs

BatchEndAll(lo, bs, n) == n

\* the end of the slice urls[lo : lo + batch_size], line 144
BatchEnd(lo, bs, n) == Min(lo + bs, n)

\* the bulk_get of the batch urls[lo : lo + batch_size], lines 144-145
StartBatch(c, cl, lo) ==
    LET hi == BatchEnd(lo, cl.batch_size, cl.n) IN
    /\ call' = [call EXCEPT ![c] = WithGate([cl EXCEPT !.pc = "batch"], lo, hi)]
    /\ task' = [task EXCEPT ![c] = NewTasks(@, lo, hi)]

\* First __anext__: range(0, len(urls), 0) raises ValueError; an empty url
\* list ends the sequence; otherwise the first batch starts.
CallStream(c, n, bs) ==
    LET b == EffectiveBatch(bs)
        cl == [IdleCall EXCEPT !.kind = "stream", !.n = n, !.arg = bs,
                               !.batch_size = b]
    IN /\ CanCall(c, n)
       /\ IF b = 0
          THEN /\ call' = [call EXCEPT ![c] = [cl EXCEPT !.pc = "raised"]]
               /\ UNCHANGED task
          ELSE IF n = 0
          THEN /\ call' = [call EXCEPT ![c] = [cl EXCEPT !.pc = "finished"]]
               /\ UNCHANGED task
          ELSE StartBatch(c, cl, 0)
       /\ UNCHANGED <<flow, config, async_client, clients_made, closed>>

\* bulk_get of the batch returns (line 145): batch_results in list order
StreamBatchReturn(c) ==
    LET cl == call[c] IN
    /\ cl.kind = "stream" /\ cl.pc = "batch"
    /\ AllFinal(c, cl.lo, cl.hi)
    /\ call' = [call EXCEPT ![c].pc = "yield",
                            ![c].queue = Gathered(c, cl.lo, cl.hi)]
    /\ UNCHANGED <<flow, config, async_client, clients_made, closed, task>>

\* `for result in batch_results: yield result` (lines 146-148)
StreamYield(c) ==
    LET cl == call[c] IN
    /\ cl.kind = "stream" /\ cl.pc = "yield"
    /\ cl.queue # <<>>
    /\ call' = [call EXCEPT ![c].queue = Tail(@),
                            ![c].out = Append(@, Head(cl.queue))]
    /\ UNCHANGED <<flow, config, async_client, clients_made, closed, task>>

\* the consumer asks for more after the last outcome of a batch: next
\* iteration of the range loop (line 143), or the end of the sequence
StreamNextBatch(c) ==
    LET cl == call[c]
        lo == cl.lo + cl.batch_size
    IN /\ cl.kind = "stream" /\ cl.pc = "yield"
       /\ cl.queue = <<>>
       /\ IF lo < cl.n
          THEN StartBatch(c, cl, lo)
          ELSE /\ call' = [call EXCEPT ![c].pc = "finished"]
               /\ UNCHANGED task
       /\ UNCHANGED <<flow, config, async_client, clients_made, closed>>

StreamAbandon(c) ==
    LET cl == call[c] IN
    /\ cl.kind = "stream" /\ cl.pc = "yield"
    /\ cl.out # <<>>
    /\ call' = [call EXCEPT ![c].pc = "abandoned"]
    /\ UNCHANGED <<flow, config, async_client, clients_made, closed, task>>

\* ------------------------------------------------------------- close_async
CloseAsync ==
    /\ async_client # None
    /\ Cardinality(closed) < MaxCloses
    /\ closed' = closed \cup {async_client}
    /\ async_client' = None
    /\ UNCHANGED <<flow, config, clients_made, call, task>>

Next ==
    \/ \E c \in CallIds : TaskAdmit(c)
    \/ \E c \in CallIds, i \in UrlIdx, r \in Responses : TaskRespond(c, i, r)
    \/ \E c \in CallIds, i \in UrlIdx : TaskWake(c, i)
    \/ \E c \in CallIds, n \in 0..MaxUrls : CallBulkGet(c, n)
    \/ \E c \in CallIds : BulkGetReturn(c)
    \/ \E c \in CallIds, n \in 0..MaxUrls : CallGenerator(c, n)
    \/ \E c \in CallIds : GenWake(c)
    \/ \E c \in CallIds, i \in UrlIdx : GenYield(c, i)
    \/ \E c \in CallIds : GenAbandon(c)
    \/ \E c \in CallIds, n \in 0..MaxUrls, bs \in BatchSizes : CallStream(c, n, bs)
    \/ \E c \in CallIds : StreamBatchReturn(c)
    \/ \E c \in CallIds : StreamYield(c)
    \/ \E c \in CallIds : StreamNextBatch(c)
    \/ \E c \in CallIds : StreamAbandon(c)
    \/ CloseAsync

Spec == Init /\ [][Next]_vars

\* get_with_retries on its own: direct calls only, with longer retry runs
InitRetry ==
    /\ FlowIdle
    /\ max_retries \in 0..MaxRetriesSolo
    /\ retry_delay \in 1..MaxDelay
    /\ concurrency \in 0..MaxConcurrency
    /\ async_client = None
    /\ clients_made = 0
    /\ closed = {}
    /\ call = [c \in CallIds |-> IdleCall]
    /\ task = [c \in CallIds |-> [i \in UrlIdx |-> NoTask]]

NextRetry ==
    \/ \E c \in CallIds : CallGetWithRetries(c)
    \/ \E c \in CallIds, i \in UrlIdx, r \in Responses : TaskRespond(c, i, r)
    \/ \E c \in CallIds, i \in UrlIdx : TaskWake(c, i)
    \/ \E c \in CallIds : GetWithRetriesReturn(c)
    \/ CloseAsync

SpecRetry == InitRetry /\ [][NextRetry]_vars

\* bulk_get_generator and its consumer while the event loop runs: a task
\* that can take a step (a free slot, an answer or a timeout of the request,
\* the end of a sleep) takes one
TaskStep ==
    \/ \E c \in CallIds : TaskAdmit(c)
    \/ \E c \in CallIds, i \in UrlIdx, r \in Responses : TaskRespond(c, i, r)
    \/ \E c \in CallIds, i \in UrlIdx : TaskWake(c, i)

NextGen ==
    \/ TaskStep
    \/ \E c \in CallIds, n \in 0..MaxUrls : CallGenerator(c, n)
    \/ \E c \in CallIds : GenWake(c)
    \/ \E c \in CallIds, i \in UrlIdx : GenYield(c, i)
    \/ \E c \in CallIds : GenAbandon(c)
    \/ CloseAsync

SpecGen == Init /\ [][NextGen]_vars /\ WF_vars(TaskStep)

\* bulk_get calls alone.  The event loop runs every task that can take a
\* step, every request attempt comes to an answer, and gather returns once
\* its tasks are done.
BulkGetStep ==
    \/ TaskStep
    \/ \E c \in CallIds : BulkGetReturn(c)

NextBulkGet ==
    \/ BulkGetStep
    \/ \E c \in CallIds, n \in 0..MaxUrls : CallBulkGet(c, n)
    \/ CloseAsync

SpecBulkGet == Init /\ [][NextBulkGet]_vars /\ WF_vars(BulkGetStep)

\* ------------------------------------------------------ bulk_upsert_entries
\* flows/update_entires.py, lines 116-313.  A record is a models.entries.Entry:
\* its id, the value `val` of its fields, and `bad` when a value breaks a
\* constraint of the entry table (a CharField value longer than the column,
\* a lat/lng outside its range), which the database reports on the statement
\* that writes the record.
Vals == {"v1", "v2"}

\* str(Entry.founded_on), the text of a peewee field object
FoundedOnLiteral == "<CharField: Entry.founded_on>"

\* the batches of n records with ids base+1 .. base+n
Batches(base, n) ==
    {[k \in 1..n |-> [id |-> base + k, val |-> f[k].val, bad |-> f[k].bad]] :
        f \in [1..n -> [val : Vals, bad : BOOLEAN]]}

\* Entry.from_pydantic(entry).to_dict() without updated_at (lines 134-142,
\* 217-220): every field of the record is copied, name by name
RowOf(r) == [present |-> TRUE, rows |-> 1, title |-> r.val, founded_on |-> r.val]

\* an INSERT into a table that has no unique index on id: one more row
OnConflictInsert(row, r) == [RowOf(r) EXCEPT !.rows = row.rows + 1]

\* One row of INSERT ... ON CONFLICT (id) DO UPDATE SET <update_fields>
\* (lines 150-178); id is the primary key of the table (database/entry.py
\* line 18), `rows` the number of rows that carry the id.  In the update dictionary a field object on the right
\* names the column of the row already in the table, so `Entry.title:
\* Entry.title` is SET title = entry.title; `str(Entry.founded_on)` is a
\* string literal.
OnConflictUpdate(row, r) ==
    IF row.present
    THEN [present |-> TRUE, rows |-> row.rows, title |-> row.title,
          founded_on |-> FoundedOnLiteral]
    ELSE RowOf(r)

\* Entry.insert_many(entry_data).on_conflict(...).execute() (lines 176-180)
RECURSIVE InsertMany(_, _)
InsertMany(st, recs) ==
    IF recs = <<>> THEN st
    ELSE InsertMany([st EXCEPT ![Head(recs).id] = OnConflictUpdate(@, Head(recs))],
                    Tail(recs))

AnyBad(recs) == \E k \in 1..Len(recs) : recs[k].bad

\* two rows of one INSERT ... ON CONFLICT DO UPDATE statement carry the same
\* id (lines 176-180): PostgreSQL refuses to affect a row a second time and
\* the statement raises
AffectsRowTwice(recs) ==
    \E j \in 1..Len(recs), k \in 1..Len(recs) : j # k /\ recs[j].id = recs[k].id

CountOk(results) == Cardinality({k \in 1..Len(results) : results[k] = "ok"})

\* bulk_upsert_entries is entered (lines 126-132): an empty list returns 0
\* at once, anything else starts the bulk tier
StartUpsert(f, recs, st) ==
    [f EXCEPT !.pc = IF recs = <<>> THEN "returned" ELSE "bulk",
              !.records = recs, !.idx = 0, !.existing = FALSE,
              !.success_count = 0, !.error_count = 0,
              !.count = IF recs = <<>> THEN 0 ELSE None,
              !.tiers = IF recs = <<>> THEN <<>> ELSE <<"bulk">>,
              !.results = <<>>, !.raised = {}, !.given = @ + Len(recs), !.before = st,
              !.atomic = "none",
              !.prev = [records |-> f.records, count |-> f.count]]

\* a direct call of bulk_upsert_entries (no area task is running)
CallBulkUpsert(u, recs) ==
    /\ orch.pc = "idle"
    /\ upsert[u].pc \in {"idle", "returned"}
    /\ upsert[u].given + Len(recs) <= MaxRecords
    /\ upsert' = [upsert EXCEPT ![u] = StartUpsert(@, recs, store)]
    /\ UNCHANGED <<http, entries, stage, store, area, orch>>

\* a tier whose statements are awaited inside its db.atomic() block
AtomicHeldAtAwait(tier) == tier

\* The db.atomic() block that a tier is inside when the coroutine next
\* awaits or returns.  `with db.atomic():` (lines 147, 213) is a plain with
\* over statements of the synchronous database, with no await from its
\* first line to its last (lines 147-180, 213-243): the block is left, by
\* COMMIT or by ROLLBACK, before lines 182/188 and 244/248 are reached.
AtomicAtAwait(tier) == "none"

\* a bulk tier that hands every batch on to the per-record tier
BulkFallsBackAlways(raised) == TRUE

\* the except clause of line 184 is entered exactly when the try block raised
BulkFallsBack(raised) == raised

\* Bulk tier (lines 132-188): one multi-row statement inside db.atomic().
\* It raises as a whole when a record breaks a constraint or when the
\* connection fails (fault); the transaction is rolled back and the
\* per-record tier is called.  Otherwise it returns len(entry_data).
BulkAttempt(u, fault) ==
    LET f == upsert[u]
        raised == fault \/ AnyBad(f.records) \/ AffectsRowTwice(f.records)
    IN
    /\ f.pc = "bulk"
    /\ store' = IF raised THEN store ELSE InsertMany(store, f.records)
    /\ upsert' = [upsert EXCEPT
            ![u].raised = IF raised THEN @ \cup {"bulk"} ELSE @,
            ![u].faulted = @ \/ fault,
            ![u].atomic = AtomicAtAwait("bulk"),
            ![u].pc = IF BulkFallsBack(raised) THEN "per_record" ELSE "returned",
            ![u].tiers = IF BulkFallsBack(raised) THEN Append(@, "per_record") ELSE @,
            ![u].count = IF BulkFallsBack(raised) THEN None ELSE Len(f.records)]
    /\ UNCHANGED <<http, entries, stage, area, orch>>

\* The loop of the per-record tier (lines 214-243), run on the transaction's
\* view tx of the table: UPDATE ... WHERE id, then Entry.create when no row
\* was updated.  A statement that breaks a constraint raises and leaves the
\* PostgreSQL transaction aborted, so every later statement of the
\* transaction raises as well; each exception is caught per record.
RECURSIVE PerRecord(_, _, _, _)
PerRecord(tx, recs, aborted, results) ==
    IF recs = <<>>
    THEN [tx |-> tx, aborted |-> aborted, results |-> results]
    ELSE LET r == Head(recs) IN
         IF aborted \/ r.bad
         THEN PerRecord(tx, Tail(recs), TRUE, Append(results, "error"))
         ELSE PerRecord([tx EXCEPT ![r.id] = RowOf(r)], Tail(recs), FALSE,
                        Append(results, "ok"))

\* a commit that leaves in the table only the rows its transaction wrote
CommittedOnlyWritten(st, run) ==
    [i \in Ids |-> IF run.tx[i] # st[i] THEN run.tx[i] ELSE NoRow]

\* what the end of `with db.atomic()` (line 213) leaves in the table: the
\* COMMIT of an aborted transaction is answered by a rollback, without error
Committed(st, run) == IF run.aborted THEN st ELSE run.tx

\* a per-record tier that hands the batch on when a record's statement failed
PerRecordFallsBackOnRecordError(begin_fault, commit_fault, aborted) ==
    begin_fault \/ commit_fault \/ aborted

\* the except clause of line 245 is entered when is_closed / connect / the
\* BEGIN of db.atomic() raises (begin_fault) or when the COMMIT at its end
\* raises (commit_fault, of a transaction that is not aborted)
PerRecordFallsBack(begin_fault, commit_fault, aborted) ==
    begin_fault \/ (commit_fault /\ ~aborted)

\* Per-record tier, fallback_individual_upserts (lines 193-253): no await
\* between its first and its last line unless it calls the guarded tier.
PerRecordAttempt(u, begin_fault, commit_fault) ==
    LET f == upsert[u]
        run == PerRecord(store, f.records, FALSE, <<>>)
        raised == begin_fault \/ (commit_fault /\ ~run.aborted)
        falls == PerRecordFallsBack(begin_fault, commit_fault, run.aborted)
    IN
    /\ f.pc = "per_record"
    /\ store' = IF raised \/ falls THEN store ELSE Committed(store, run)
    /\ upsert' = [upsert EXCEPT
            ![u].raised = IF raised THEN @ \cup {"per_record"} ELSE @,
            ![u].faulted = @ \/ raised,
            ![u].atomic = AtomicAtAwait("per_record"),
            ![u].pc = IF falls THEN "guarded_lookup" ELSE "returned",
            ![u].tiers = IF falls THEN Append(@, "guarded") ELSE @,
            ![u].idx = IF falls THEN 1 ELSE @,
            ![u].results = IF falls THEN <<>> ELSE run.results,
            ![u].success_count = IF falls THEN 0 ELSE CountOk(run.results),
            ![u].error_count = IF falls THEN 0
                               ELSE Len(run.results) - CountOk(run.results),
            ![u].count = IF falls THEN None ELSE CountOk(run.results)]
    /\ UNCHANGED <<http, entries, stage, area, orch>>

\* the guarded tier goes on to its next record, or returns success_count
\* after the last one (lines 269, 310-313)
GuardedNext(f) ==
    IF f.idx >= Len(f.records)
    THEN [f EXCEPT !.pc = "returned", !.count = f.success_count]
    ELSE [f EXCEPT !.pc = "guarded_lookup", !.idx = @ + 1]

\* a record's exception caught at line 297: counted, then asyncio.sleep(0.01)
GuardedError(f) ==
    [f EXCEPT !.pc = "guarded_sleep", !.error_count = @ + 1,
              !.results = Append(@, "error")]

\* Guarded tier, safe_async_fallback_upserts (lines 256-313), up to the
\* answer of Entry.aio_get_or_none (line 274)
GuardedLookup(u, fault) ==
    LET f == upsert[u] IN
    /\ f.pc = "guarded_lookup"
    /\ upsert' = [upsert EXCEPT ![u] =
            IF fault THEN GuardedError([f EXCEPT !.faulted = TRUE])
            ELSE [f EXCEPT !.pc = "guarded_save",
                           !.existing = store[f.records[f.idx].id].present]]
    /\ UNCHANGED <<http, entries, stage, store, area, orch>>

\* aio_save() of a model object whose primary key is set and without
\* force_insert (lines 287, 292): UPDATE ... SET <every field> WHERE id = pk,
\* for the fetched object and for the new one alike
AioSave(st, r) ==
    IF st[r.id].present THEN [st EXCEPT ![r.id] = RowOf(r)] ELSE st

\* the answer of aio_save arrives (lines 278-295): the statement raises on a
\* failed connection, and on a constraint broken by a value written to a row
GuardedSave(u, fault) ==
    LET f == upsert[u]
        r == f.records[f.idx]
        raised == fault \/ (r.bad /\ store[r.id].present)
    IN
    /\ f.pc = "guarded_save"
    /\ store' = IF raised THEN store ELSE AioSave(store, r)
    /\ upsert' = [upsert EXCEPT ![u] =
            IF raised THEN GuardedError([f EXCEPT !.faulted = @ \/ fault])
            ELSE GuardedNext([f EXCEPT !.success_count = @ + 1,
                                       !.results = Append(@, "ok")])]
    /\ UNCHANGED <<http, entries, stage, area, orch>>

\* the sleep of line 304 ends
GuardedWake(u) ==
    /\ upsert[u].pc = "guarded_sleep"
    /\ upsert' = [upsert EXCEPT ![u] = GuardedNext(@)]
    /\ UNCHANGED <<http, entries, stage, store, area, orch>>

\* the fetch engine is not used by a direct call
HttpIdle ==
    /\ max_retries = MaxRetries
    /\ retry_delay = 1
    /\ concurrency = MaxConcurrency
    /\ async_client = None
    /\ clients_made = 0
    /\ closed = {}
    /\ call = [c \in CallIds |-> IdleCall]
    /\ task = [c \in CallIds |-> [i \in UrlIdx |-> NoTask]]

\* the table before the calls: any of the ids may have a row already
OldRow == [present |-> TRUE, rows |-> 1, title |-> "old", founded_on |-> "old"]

InitUpsert ==
    /\ HttpIdle
    /\ store \in {[i \in Ids |-> IF i \in old THEN OldRow ELSE NoRow] :
                    old \in SUBSET (1..MaxRecords)}
    /\ upsert = [a \in Areas |-> IdleUpsert]
    /\ entries = IdleEntries
    /\ stage = IdleStage
    /\ area = [a \in Areas |-> IdleArea]
    /\ orch = IdleOrch

UpsertStep(u) ==
    \/ \E fault \in BOOLEAN : BulkAttempt(u, fault)
    \/ \E begin_fault \in BOOLEAN, commit_fault \in BOOLEAN :
            PerRecordAttempt(u, begin_fault, commit_fault)
    \/ \E fault \in BOOLEAN : GuardedLookup(u, fault)
    \/ \E fault \in BOOLEAN : GuardedSave(u, fault)
    \/ GuardedWake(u)

NextUpsert ==
    \/ \E n \in 0..MaxRecords : \E recs \in Batches(0, n) : CallBulkUpsert(1, recs)
    \/ UpsertStep(1)

SpecUpsert == InitUpsert /\ [][NextUpsert]_vars /\ WF_vars(UpsertStep(1))

\* two callers of bulk_upsert_entries at the same time, as two area tasks
\* whose cells return the same ids: each takes its steps between the awaits
\* of the other
CallersAtOnce == 1..2

\* the batches of caller u: ids 1..n, the caller's own value in every field
OverlapBatches(u, n) ==
    {recs \in Batches(0, n) :
        \A k \in 1..n : recs[k].val = (IF u = 1 THEN "v1" ELSE "v2")}

InitOverlap ==
    /\ HttpIdle
    /\ store \in {[i \in Ids |-> IF i \in old THEN OldRow ELSE NoRow] :
                    old \in SUBSET (1..MaxOverlap)}
    /\ upsert = [a \in Areas |-> IdleUpsert]
    /\ entries = IdleEntries
    /\ stage = IdleStage
    /\ area = [a \in Areas |-> IdleArea]
    /\ orch = IdleOrch

NextOverlap ==
    \/ \E u \in CallersAtOnce, n \in 1..MaxOverlap :
            \E recs \in OverlapBatches(u, n) :
                /\ upsert[1].given + upsert[2].given + n <= MaxRecords
                /\ CallBulkUpsert(u, recs)
    \/ \E u \in CallersAtOnce : UpsertStep(u)

SpecOverlap == InitOverlap /\ [][NextOverlap]_vars

\* ------------------------------------- search, process_area, update_entries
\* flows/update_entires.py lines 17-113 (flows/sync_all_entires.py has the
\* same two functions), ofdb/search.py, ofdb/entries.py.  search and
\* get_entries each make a BulkHttpClient of their own and read
\* bulk_get_generator, which hands over one outcome per url in completion
\* order: the parsed body of a 2xx response, or the Exception that
\* get_with_retries returned.  A body is of the shape the caller expects
\* ("ok") or not ("malformed").
FetchOutcomes == {"ok", "malformed", "error"}

\* the ranges of an area around Berlin, in tenths of a degree: lats
\* 52.4 .. 52.6, lngs 13.3 .. 13.5
BerlinLats == <<524, 526>>
BerlinLngs == <<133, 135>>

\* the grid cells of areas 1..n
RECURSIVE GridCells(_, _)
GridCells(ar, n) ==
    IF n = 0 THEN 0
    ELSE CellsOf(ar[n].lat_n_chunks, ar[n].lng_n_chunks) + GridCells(ar, n - 1)

\* the ids of the entries of cell c of area a come after base IdBase(a, c):
\* the cells have no entry in common
IdBase(a, c) == (GridCells(area, a - 1) + (c - 1)) * MaxVisible

\* the areas of config.areas
Configured == 1..orch.n_areas

IsFinalArea(ar) == ar.pc \in {"done", "raised", "cancelled"}

\* a running value that keeps the latest number instead of the largest
MaxLatest(a, b) == b

Max(a, b) == IF a >= b THEN a ELSE b

\* update_entries up to its await (lines 23-32): one task per area.  The
\* run starts with no upsert under way.
UpdateEntries ==
    /\ orch.pc = "idle"
    /\ \A a \in Areas : upsert[a].pc = "idle"
    /\ orch' = [orch EXCEPT !.pc = "gather"]
    /\ area' = [a \in Areas |->
                    IF a \in Configured THEN [area[a] EXCEPT !.pc = "created"]
                    ELSE area[a]]
    /\ UNCHANGED <<http, entries, stage, store, upsert>>

\* np.linspace(start, stop, num=num) without its last point: num points
\* from start in steps of (stop - start) / num
LinspaceOpen(range, num) ==
    [k \in 1..num |->
        [num |-> range[1] * num + (k - 1) * (range[2] - range[1]), den |-> num]]

\* np.linspace(range[0], range[1], num=num) (lines 77-78): num points from
\* start to stop, both included, in equal steps; the single point of num = 1
\* is start.  Coordinates are whole tenths of a degree; point k is the
\* fraction num / den, all the points of an axis over the same den.
Linspace(range, num) ==
    [k \in 1..num |->
        IF num = 1 THEN [num |-> range[1], den |-> 1]
        ELSE [num |-> range[1] * (num - 1) + (k - 1) * (range[2] - range[1]),
              den |-> num - 1]]

\* the bbox of SearchParams (line 83): lats[i], lngs[j], lats[i+1], lngs[j+1]
BBox(lat_points, lng_points, i, j) ==
    [lat_min |-> lat_points[i], lng_min |-> lng_points[j],
     lat_max |-> lat_points[i + 1], lng_max |-> lng_points[j + 1]]

\* search_params (lines 80-84): for i in range(lat_n_chunks - 1), for j in
\* range(lng_n_chunks - 1), one box appended
RECURSIVE SearchParamsFrom(_, _, _, _)
SearchParamsFrom(lat_points, lng_points, i, j) ==
    IF i > Len(lat_points) - 1 THEN <<>>
    ELSE IF j > Len(lng_points) - 1
         THEN SearchParamsFrom(lat_points, lng_points, i + 1, 1)
         ELSE <<BBox(lat_points, lng_points, i, j)>>
              \o SearchParamsFrom(lat_points, lng_points, i, j + 1)

\* a loop over the latitudes that ends after its first round
SearchParamsFirstRow(ar) ==
    SearchParamsFrom(SubSeq(Linspace(ar.lats, ar.lat_n_chunks), 1,
                            IF ar.lat_n_chunks >= 2 THEN 2 ELSE ar.lat_n_chunks),
                     Linspace(ar.lngs, ar.lng_n_chunks), 1, 1)

SearchParamsOf(ar) ==
    SearchParamsFrom(Linspace(ar.lats, ar.lat_n_chunks),
                     Linspace(ar.lngs, ar.lng_n_chunks), 1, 1)

\* process_area from its first line to the first await of search (lines
\* 76-89): the grid, the search parameters, the requests of all the cells
AreaStart(a) ==
    /\ area[a].pc = "created"
    /\ area' = [area EXCEPT
            ![a].pc = "search",
            ![a].search = "running",
            ![a].search_params = SearchParamsOf(area[a]),
            ![a].pending = 1..Len(SearchParamsOf(area[a]))]
    /\ UNCHANGED <<http, entries, stage, store, upsert, orch>>

\* SearchResult.model_validate(response) (search.py line 45): a dictionary
\* is validated against the model; anything else, the Exception of a failed
\* fetch included, raises a ValidationError
ModelValidates(outcome) == outcome = "ok"

\* a gather that lets an exception of a task pass cancels nothing either,
\* but a task group would cancel the siblings of a task that raised
SiblingsCancelled(ar, a) ==
    [b \in Areas |-> IF b # a /\ ar[b].pc \notin {"idle", "done", "raised"}
                     THEN [ar[b] EXCEPT !.pc = "cancelled"] ELSE ar[b]]

\* the other area tasks when the task of area a raises: they are left alone
\* (asyncio.create_task + gather(return_exceptions=True), lines 28-32)
Siblings(ar, a) == ar

\* The outcome of cell c arrives in search (search.py lines 44-45) and
\* process_area takes the SearchResult (lines 89-99).  The ValidationError
\* of model_validate leaves search and, line 89 being outside the try of
\* line 98, leaves process_area: the task of the area has raised.
SearchYield(a, c, outcome, v) ==
    LET ar == area[a]
        got == [ar EXCEPT !.pending = @ \ {c},
                          !.fetched = Append(@, <<c, outcome>>)]
    IN
    /\ ar.pc = "search"
    /\ c \in ar.pending
    /\ outcome # "ok" => v = 0
    /\ IF ~ModelValidates(outcome)
       THEN area' = Siblings([area EXCEPT ![a] =
                        [got EXCEPT !.pc = "raised", !.search = "raised"]], a)
       ELSE area' = [area EXCEPT ![a] =
                        [got EXCEPT !.yielded = Append(@, <<c, v>>),
                                    !.pc = IF v = 0 THEN "search" ELSE "details",
                                    !.cell = c,
                                    !.visible = v,
                                    !.max_numbers = Max(@, v)]]
    /\ UNCHANGED <<http, entries, stage, store, upsert, orch>>

\* bulk_get_generator has handed over every outcome: search ends, the loop
\* of line 89 ends and process_area returns its pair (lines 112-113)
SearchExhausted(a) ==
    /\ area[a].pc = "search"
    /\ area[a].pending = {}
    /\ area' = [area EXCEPT ![a].pc = "done", ![a].search = "finished"]
    /\ UNCHANGED <<http, entries, stage, store, upsert, orch>>

\* a get_entries that validates whatever bulk_get_generator hands over
EntriesRaisesOnError(outcome) == outcome # "ok"

\* the Exception of a failed fetch is answered by an empty batch (lines
\* 26-29); Entry.model_validate raises on a body of another shape (line 31)
EntriesRaises(outcome) == outcome = "malformed"

\* a process_area without the try of line 98: what get_entries raises
\* leaves the task of the area
AfterDetailsRaiseUncaught(ar) == [ar EXCEPT !.pc = "raised"]

\* get_entries has raised inside the try of line 98: the except clause of
\* lines 107-110 logs and goes on with the next search result
AfterDetailsRaise(ar) == [ar EXCEPT !.pc = "search"]

\* The outcome of the one chunk of get_entries arrives (entries.py lines
\* 25-32, process_area lines 99-110; a cell has at most 100 visible ids):
\* an Exception is turned into [], which process_area skips; a body that
\* does not validate raises in get_entries and is caught at line 107; a
\* non-empty list goes to bulk_upsert_entries.
DetailsYield(a, outcome, recs) ==
    LET ar == area[a] IN
    /\ ar.pc = "details"
    /\ outcome # "ok" => recs = <<>>
    /\ IF EntriesRaises(outcome)
       THEN /\ area' = [area EXCEPT ![a] = AfterDetailsRaise(
                            [ar EXCEPT !.undecoded = @ \cup {ar.cell}])]
            /\ UNCHANGED upsert
       ELSE IF recs = <<>>
       THEN /\ area' = [area EXCEPT ![a].pc = "search"]
            /\ UNCHANGED upsert
       ELSE /\ area' = [area EXCEPT ![a].pc = "upsert"]
            /\ upsert' = [upsert EXCEPT ![a] = StartUpsert(@, recs, store)]
    /\ UNCHANGED <<http, entries, stage, store, orch>>

\* bulk_upsert_entries has returned (lines 104-106); get_entries has no
\* further chunk and the loop of line 89 goes on
UpsertReturn(a) ==
    /\ area[a].pc = "upsert"
    /\ upsert[a].pc = "returned"
    /\ area' = [area EXCEPT ![a].pc = "search",
                            ![a].area_upserted = @ + upsert[a].count]
    /\ UNCHANGED <<http, entries, stage, store, upsert, orch>>

\* isinstance(result, tuple) and len(result) == 2 for every area
SucceededAlways(ar) == TRUE

\* the result of an area task is its pair (line 42), not an exception
Succeeded(ar) == ar.pc = "done"

\* the loop of lines 39-51 over the results of areas 1..n
RECURSIVE Aggregate(_, _)
Aggregate(ar, n) ==
    IF n = 0
    THEN [total_upserted |-> 0, max_numbers |-> 0, successful_areas |-> 0,
          failed_areas |-> 0]
    ELSE LET t == Aggregate(ar, n - 1) IN
         IF Succeeded(ar[n])
         THEN [t EXCEPT !.total_upserted = @ + ar[n].area_upserted,
                        !.max_numbers = Max(@, ar[n].max_numbers),
                        !.successful_areas = @ + 1]
         ELSE [t EXCEPT !.failed_areas = @ + 1]

\* a gather without return_exceptions re-raises the first exception
GatherRaisesFirst(ar, n) == \E a \in 1..n : ar[a].pc = "raised"

\* gather(*area_tasks, return_exceptions=True) (line 32) hands exceptions
\* over as results and raises none
GatherRaises(ar, n) == FALSE

\* every area task has finished: gather returns, the results are
\* aggregated and update_entries returns (lines 32-62)
GatherDone ==
    LET t == Aggregate(area, orch.n_areas) IN
    /\ orch.pc = "gather"
    /\ \A a \in Configured : IsFinalArea(area[a])
    /\ orch' = IF GatherRaises(area, orch.n_areas)
               THEN [orch EXCEPT !.pc = "raised"]
               ELSE [orch EXCEPT !.pc = "returned",
                                 !.total_upserted = t.total_upserted,
                                 !.max_numbers = t.max_numbers,
                                 !.successful_areas = t.successful_areas,
                                 !.failed_areas = t.failed_areas]
    /\ UNCHANGED <<http, entries, stage, store, upsert, area>>

\* config.areas as loaded at process start; the table holds one row of an
\* earlier run, of a record that the searches of this run do not return
InitSync ==
    /\ HttpIdle
    /\ store = [i \in Ids |-> IF i = StaleId THEN OldRow ELSE NoRow]
    /\ upsert = [a \in Areas |-> IdleUpsert]
    /\ entries = IdleEntries
    /\ stage = IdleStage
    /\ \E n \in 0..MaxAreas :
        /\ orch = [IdleOrch EXCEPT !.n_areas = n]
        /\ area \in {ar \in [Areas -> {IdleArea} \cup
                                      {[IdleArea EXCEPT !.lats = BerlinLats,
                                                        !.lngs = BerlinLngs,
                                                        !.lat_n_chunks = la,
                                                        !.lng_n_chunks = ln] :
                                          la \in 1..MaxLatChunks,
                                          ln \in 1..MaxLngChunks}] :
                        /\ \A a \in Areas : a > n <=> ar[a] = IdleArea
                        /\ GridCells(ar, MaxAreas) <= MaxGridCells}

\* process_area's grid on its own: one area, with any range and any number
\* of chunks on each axis
Coords == 0..MaxCoord

InitPlan ==
    /\ HttpIdle
    /\ store = [i \in Ids |-> NoRow]
    /\ upsert = [a \in Areas |-> IdleUpsert]
    /\ entries = IdleEntries
    /\ stage = IdleStage
    /\ orch = [IdleOrch EXCEPT !.n_areas = 1]
    /\ area \in {ar \in [Areas -> {IdleArea} \cup
                                  {[IdleArea EXCEPT !.lats = la, !.lngs = ln,
                                                    !.lat_n_chunks = m,
                                                    !.lng_n_chunks = n] :
                                      la \in Coords \X Coords,
                                      ln \in Coords \X Coords,
                                      m \in 1..MaxLatChunks,
                                      n \in 1..MaxLngChunks}] :
                    \A a \in Areas : a > 1 <=> ar[a] = IdleArea}

NextPlan ==
    \/ UpdateEntries
    \/ \E a \in Areas : AreaStart(a)

SpecPlan == InitPlan /\ [][NextPlan]_vars

\* ------------------------------------------------------------ get_entries
\* ofdb/entries.py lines 10-32, read directly as test_get_entries does
\* (lines 35-59).

\* len(range(0, n, step)), step > 0
RangeLen(n, step) == Cardinality({k \in 0..(n - 1) : k % step = 0})

\* list(islice(it, chunk_size)): the next chunk_size items of the iterator,
\* or those that are left
Islice(rest, chunk_size) ==
    SubSeq(rest, 1, IF chunk_size <= Len(rest) THEN chunk_size ELSE Len(rest))

\* an islice that reads the list itself leaves every item for the next one
AfterIsliceOfList(rest, chunk_size) == rest

\* the iterator after islice has taken its items
AfterIslice(rest, chunk_size) ==
    SubSeq(rest, Len(Islice(rest, chunk_size)) + 1, Len(rest))

\* id_strs (line 20): one islice of the shared iterator for each element of
\* range(0, len(entry_ids), chunk_size)
RECURSIVE IdStrsFrom(_, _, _)
IdStrsFrom(rest, rounds, chunk_size) ==
    IF rounds = 0 THEN <<>>
    ELSE <<Islice(rest, chunk_size)>>
         \o IdStrsFrom(AfterIslice(rest, chunk_size), rounds - 1, chunk_size)

IdStrs(entry_ids, chunk_size) ==
    IdStrsFrom(entry_ids, RangeLen(Len(entry_ids), chunk_size), chunk_size)

\* The first __anext__ of get_entries(entry_ids, chunk_size) up to the first
\* await of bulk_get_generator (lines 14-25): one url for each chunk, all
\* requests scheduled.  range() with step 0 raises a ValueError.
CallGetEntries(entry_ids, chunk_size) ==
    /\ entries.pc = "idle"
    /\ orch.pc = "idle"
    /\ entries' =
         IF chunk_size = 0
         THEN [entries EXCEPT !.pc = "raised", !.entry_ids = entry_ids,
                              !.chunk_size = chunk_size]
         ELSE [entries EXCEPT !.pc = "reading", !.entry_ids = entry_ids,
                              !.chunk_size = chunk_size,
                              !.id_strs = IdStrs(entry_ids, chunk_size),
                              !.pending = 1..Len(IdStrs(entry_ids, chunk_size))]
    /\ UNCHANGED <<http, stage, store, upsert, area, orch>>

\* the batch yielded for the chunk ids: [] for an error, else the entries
EntriesBatch(ids, outcome) == IF outcome = "error" THEN <<>> ELSE ids

\* the outcome of chunk k arrives, in completion order (lines 25-32)
EntriesYield(k, outcome) ==
    LET got == [entries EXCEPT !.pending = @ \ {k},
                               !.fetched = Append(@, <<k, outcome>>)]
    IN
    /\ entries.pc = "reading"
    /\ k \in entries.pending
    /\ entries' =
         IF EntriesRaises(outcome)
         THEN [got EXCEPT !.pc = "raised"]
         ELSE [got EXCEPT !.yielded =
                    Append(@, [chunk |-> k,
                               batch |-> EntriesBatch(entries.id_strs[k], outcome)])]
    /\ UNCHANGED <<http, stage, store, upsert, area, orch>>

\* bulk_get_generator is exhausted: the generator ends
EntriesExhausted ==
    /\ entries.pc = "reading"
    /\ entries.pending = {}
    /\ entries' = [entries EXCEPT !.pc = "finished"]
    /\ UNCHANGED <<http, stage, store, upsert, area, orch>>

InitEntries ==
    /\ HttpIdle
    /\ FlowIdle

NextEntries ==
    \/ \E n \in 0..MaxEntryIds, chunk_size \in 0..MaxChunkSize :
            CallGetEntries([k \in 1..n |-> k], chunk_size)
    \/ \E k \in 1..MaxEntryIds, outcome \in FetchOutcomes : EntriesYield(k, outcome)
    \/ EntriesExhausted

SpecEntries == InitEntries /\ [][NextEntries]_vars /\ WF_vars(NextEntries)

\* ------------------------------------- a stage and the fetch engine under it
\* search (ofdb/search.py lines 32-45) and get_entries (ofdb/entries.py lines
\* 10-32) have the same frame: `async with BulkHttpClient(...) as client`
\* around `async for response in client.bulk_get_generator(urls)`.  The
\* stage's generator call is call 1 of the instance.
StageKinds == {"search", "get_entries"}
StageCall == 1

\* what the stage sees of an outcome of the generator: the Exception that
\* get_with_retries returned, or a body of the expected shape or not
StageOutcome(outcome, valid) ==
    IF outcome \notin OkResponses THEN "error"
    ELSE IF valid THEN "ok" ELSE "malformed"

\* the stage raises on the outcome: search validates whatever it gets
\* (search.py line 45), get_entries answers an Exception by [] (entries.py
\* lines 26-31)
StageRaises(kind, o) ==
    IF kind = "search" THEN ~ModelValidates(o) ELSE EntriesRaises(o)

\* __aexit__ -> close_async (http_client.py lines 155-165) closes the client
\* and forgets it; no line cancels or awaits the tasks of the generator
ReleaseTasks(tk) == tk

\* `async with BulkHttpClient(...) as client` is entered and the generator
\* is asked for its first outcome: __aenter__ makes the client (lines
\* 160-162), bulk_get_generator makes the gate and one task per url and
\* waits (lines 95-111)
StageEnter(kind, n) ==
    /\ stage.pc = "idle"
    /\ call[StageCall].kind = "idle"
    /\ GetAsyncClient
    /\ call' = [call EXCEPT ![StageCall] =
                  WithGate([IdleCall EXCEPT !.kind = "generator",
                                            !.pc = IF n = 0 THEN "finished" ELSE "wait",
                                            !.n = n,
                                            !.pending = 1..n], 0, n)]
    /\ task' = [task EXCEPT ![StageCall] = NewTasks(@, 0, n)]
    /\ stage' = [IdleStage EXCEPT !.pc = "reading", !.kind = kind]
    /\ UNCHANGED <<store, upsert, area, orch, entries, config, closed>>

\* The stage takes the outcome that the generator has yielded.  When it
\* raises, the exception leaves the `async with`: __aexit__ closes the
\* client (lines 164-165, 155-158) and the stage is over.
StageTake(valid) ==
    LET cl == call[StageCall]
        o == StageOutcome(cl.out[stage.taken + 1][2], valid)
    IN
    /\ stage.pc = "reading"
    /\ stage.taken < Len(cl.out)
    /\ IF StageRaises(stage.kind, o)
       THEN /\ stage' = [stage EXCEPT !.pc = "raised", !.taken = @ + 1]
            /\ closed' = closed \cup {async_client}
            /\ async_client' = None
            /\ task' = [task EXCEPT ![StageCall] = ReleaseTasks(@)]
       ELSE /\ stage' = [stage EXCEPT !.taken = @ + 1,
                                      !.yielded = Append(@, o)]
            /\ UNCHANGED <<closed, async_client, task>>
    /\ UNCHANGED <<store, upsert, area, orch, entries, config, clients_made, call>>

\* the generator is exhausted: the `async for` ends, the `async with` is
\* left normally and __aexit__ closes the client
StageEnd ==
    /\ stage.pc = "reading"
    /\ call[StageCall].pc = "finished"
    /\ stage.taken = Len(call[StageCall].out)
    /\ stage' = [stage EXCEPT !.pc = "finished"]
    /\ closed' = closed \cup {async_client}
    /\ async_client' = None
    /\ task' = [task EXCEPT ![StageCall] = ReleaseTasks(@)]
    /\ UNCHANGED <<store, upsert, area, orch, entries, config, clients_made, call>>

\* the generator runs on when the stage asks for the next outcome
StageAsks == stage.pc = "reading" /\ stage.taken = Len(call[StageCall].out)

\* the fetch tasks of the stage's generator, which run whether the stage
\* still reads or not
StageTaskStep ==
    \/ TaskAdmit(StageCall)
    \/ \E i \in UrlIdx, r \in Responses : TaskRespond(StageCall, i, r)
    \/ \E i \in UrlIdx : TaskWake(StageCall, i)

NextStage ==
    \/ \E kind \in StageKinds, n \in 0..MaxUrls : StageEnter(kind, n)
    \/ StageTaskStep
    \/ StageAsks /\ GenWake(StageCall)
    \/ \E i \in UrlIdx : StageAsks /\ GenYield(StageCall, i)
    \/ \E valid \in BOOLEAN : StageTake(valid)
    \/ StageEnd

SpecStage == Init /\ [][NextStage]_vars /\ WF_vars(NextStage)

\* what a detail fetch of area a can bring for the current cell: nothing,
\* or the entries of the visible ids, which the models.entries.Entry
\* validation has passed
DetailBatches(a) ==
    {<<>>} \cup {b \in Batches(IdBase(a, area[a].cell), area[a].visible) :
                    \A k \in 1..Len(b) : b[k].val = "v1" /\ ~b[k].bad}

AreaStep(a) ==
    \/ AreaStart(a)
    \/ \E c \in 1..MaxCells, outcome \in FetchOutcomes, v \in 0..MaxVisible :
            SearchYield(a, c, outcome, v)
    \/ SearchExhausted(a)
    \/ \E outcome \in FetchOutcomes, recs \in DetailBatches(a) :
            DetailsYield(a, outcome, recs)
    \/ UpsertStep(a)
    \/ UpsertReturn(a)

NextSync ==
    \/ UpdateEntries
    \/ \E a \in Areas : AreaStep(a)
    \/ GatherDone

SpecSync == InitSync /\ [][NextSync]_vars /\ WF_vars(NextSync)

\* ------------------------------------------------ batches of the sync flows
\* _deduplicate_entries_by_id (recent_entries.py lines 56-69): the loop over
\* entries with the ids seen so far
RECURSIVE DeduplicateFrom(_, _, _)
DeduplicateFrom(es, seen_ids, unique_entries) ==
    IF es = <<>> THEN unique_entries
    ELSE IF Head(es).id \notin seen_ids
         THEN DeduplicateFrom(Tail(es), seen_ids \cup {Head(es).id},
                              Append(unique_entries, Head(es)))
         ELSE DeduplicateFrom(Tail(es), seen_ids, unique_entries)

DeduplicateEntriesById(es) == DeduplicateFrom(es, {}, <<>>)

\* get_recent_entries (recent_entries.py lines 10-53): [] when the request
\* or the validation fails, otherwise the entries without their duplicates
GetRecentEntries(outcome, data) ==
    IF outcome # "ok" THEN <<>> ELSE DeduplicateEntriesById(data)

\* the answers of the remote service with n entries: any id of 1..MaxRawIds
\* at any place, valid values
RawBatches(base, n) ==
    {[k \in 1..n |-> [id |-> base + f[k].id, val |-> f[k].val, bad |-> FALSE]] :
        f \in [1..n -> [id : 1..MaxRawIds, val : Vals]]}

\* sync_recent_entries (sync_recent_entries.py lines 7-11) up to the first
\* await inside bulk_upsert_entries: what get_recent_entries returns is
\* handed to bulk_upsert_entries
SyncRecentEntries(outcome, data) ==
    /\ orch.pc = "idle"
    /\ upsert[1].pc = "idle"
    /\ outcome # "ok" => data = <<>>
    /\ upsert' = [upsert EXCEPT ![1] =
                    StartUpsert(@, GetRecentEntries(outcome, data), store)]
    /\ UNCHANGED <<http, entries, stage, store, area, orch>>

\* what a detail fetch of area a can bring for the current cell when the
\* remote service is free to repeat an entry
RawDetailBatches(a) ==
    {<<>>} \cup {b \in RawBatches(IdBase(a, area[a].cell), area[a].visible) :
                    \A k \in 1..Len(b) : b[k].val = "v1"}

\* one area of two cells
InitBatch ==
    /\ HttpIdle
    /\ store = [i \in Ids |-> NoRow]
    /\ upsert = [a \in Areas |-> IdleUpsert]
    /\ entries = IdleEntries
    /\ stage = IdleStage
    /\ orch = [IdleOrch EXCEPT !.n_areas = 1]
    /\ area = [a \in Areas |->
                IF a = 1 THEN [IdleArea EXCEPT !.lats = BerlinLats,
                                               !.lngs = BerlinLngs,
                                               !.lat_n_chunks = 3,
                                               !.lng_n_chunks = 2]
                ELSE IdleArea]

\* either flow is run, against a remote service that may repeat entries
NextBatch ==
    \/ \E outcome \in FetchOutcomes, n \in 0..MaxRecords :
            \E data \in RawBatches(0, n) : SyncRecentEntries(outcome, data)
    \/ UpdateEntries
    \/ AreaStart(1)
    \/ \E c \in 1..MaxCells, outcome \in FetchOutcomes, v \in 0..MaxVisible :
            SearchYield(1, c, outcome, v)
    \/ SearchExhausted(1)
    \/ \E outcome \in FetchOutcomes, recs \in RawDetailBatches(1) :
            DetailsYield(1, outcome, recs)
    \/ UpsertStep(1)
    \/ UpsertReturn(1)
    \/ GatherDone

SpecBatch == InitBatch /\ [][NextBatch]_vars

\* ------------------------------------------------------------ properties
ErrorOutcomes == {"status", "transport", "decode", "closed", "exhausted"}

TasksOf(c) == {i \in UrlIdx : task[c][i].pc # "none"}

\* the urls of call c with a request on the wire
InFlight(c) == {i \in UrlIdx : task[c][i].pc = "request"}

RECURSIVE InFlightUpTo(_)
InFlightUpTo(c) ==
    IF c = 0 THEN 0 ELSE Cardinality(InFlight(c)) + InFlightUpTo(c - 1)

TotalInFlight == InFlightUpTo(MaxCalls)

\* 1 + 2 + ... + k
RECURSIVE Triangle(_)
Triangle(k) == IF k <= 0 THEN 0 ELSE k + Triangle(k - 1)

\* C1 as stated: over all the calls running on one instance, the requests in
\* flight at the same time never exceed the concurrency limit C.
C1_InstanceWideBound == TotalInFlight <= concurrency

\* C1 (amended): each bulk_get / bulk_get_generator / bulk_get_stream call
\* has a gate of its own, so the requests of ONE call in flight at the same
\* time never exceed C; calls that overlap are bounded one by one only.
C1_PerCallBound ==
    \A c \in CallIds : Cardinality(InFlight(c)) <= concurrency

\* two overlapping calls, each with a request in flight, together above C
C1_Witness ==
    /\ \A c \in {1, 2} : InFlight(c) # {} /\ call[c].kind # "get_with_retries"
    /\ TotalInFlight > concurrency

\* C2: with R >= 1, a get_with_retries whose every attempt failed has made
\* exactly R request attempts, ends with an error value, and has slept at
\* least D * (1 + 2 + ... + (R - 1)) between the attempts.
C2_ExhaustedAfterR ==
    \A c \in CallIds : \A i \in UrlIdx :
        LET t == task[c][i] IN
        /\ (max_retries >= 1 /\ IsFinal(t) /\ t.outcome # "ok") =>
              /\ t.pc = "done"
              /\ t.outcome \in ErrorOutcomes
              /\ t.attempts = max_retries
              /\ SumSeq(t.delays) >= retry_delay * Triangle(max_retries - 1)
        /\ t.attempts <= max_retries

C2_Witness ==
    \E c \in CallIds :
        /\ call[c].kind = "get_with_retries" /\ call[c].pc = "returned"
        /\ max_retries = 3
        /\ task[c][1].attempts = 3
        /\ call[c].out = <<<<1, "status">>>>
        /\ SumSeq(task[c][1].delays) = retry_delay * 3

\* C3 as stated: the delay slept before attempt k (k = 2, 3, ...: the
\* attempts that follow a sleep) is D * k.
C3_DelayBeforeAttempt ==
    \A c \in CallIds : \A i \in UrlIdx :
        LET t == task[c][i] IN
        \A k \in 2..t.attempts : k - 1 <= Len(t.delays) => t.delays[k - 1] = retry_delay * k

\* C3 (amended): the delay slept after failed attempt k, that is before
\* attempt k + 1, is D * k (linear in the number of the attempt that failed);
\* nothing is slept before attempt 1 nor after attempt R.
C3_DelayAfterAttempt ==
    \A c \in CallIds : \A i \in UrlIdx :
        LET t == task[c][i] IN
        /\ \A k \in 1..Len(t.delays) : t.delays[k] = retry_delay * k
        /\ Len(t.delays) = IF t.pc = "sleep" THEN t.attempts
                           ELSE IF t.attempts = 0 THEN 0 ELSE t.attempts - 1

\* a fourth attempt under way, after sleeps of D, 2D and 3D with D = 2
C3_Witness ==
    \E c \in CallIds :
        /\ retry_delay = 2
        /\ task[c][1].pc = "request"
        /\ task[c][1].attempts = 4
        /\ task[c][1].delays = <<2, 4, 6>>

\* C4: a failed fetch is never raised: get_with_retries ends with a returned
\* value (an error value once the retries are used up), no call raises
\* because of a fetch, and what bulk_get, bulk_get_generator and
\* bulk_get_stream hand over for a url is that url's outcome, error or not.
C4_ErrorsAreOutcomes ==
    \A c \in CallIds :
        LET cl == call[c] IN
        /\ \A i \in UrlIdx :
              /\ task[c][i].pc # "raised"
              /\ task[c][i].pc = "done" =>
                    task[c][i].outcome \in {"ok"} \cup ErrorOutcomes
        /\ cl.pc = "raised" => TasksOf(c) = {}
        /\ \A k \in 1..Len(cl.out) :
              /\ IsFinal(task[c][cl.out[k][1]])
              /\ cl.out[k][2] = task[c][cl.out[k][1]].outcome
        /\ \A k \in 1..Len(cl.queue) :
              cl.queue[k][2] = task[c][cl.queue[k][1]].outcome

\* a generator has handed over the error of a url that failed R = 2 times
C4_Witness ==
    \E c \in CallIds :
        /\ call[c].kind = "generator"
        /\ max_retries = 2
        /\ \E k \in 1..Len(call[c].out) :
              /\ call[c].out[k][2] = "transport"
              /\ task[c][call[c].out[k][1]].attempts = 2

\* C5: bulk_get returns only when every url has its outcome, with one
\* outcome per url, the i-th being that of urls[i] whatever the order in
\* which the fetches completed.
C5_GatherInInputOrder ==
    \A c \in CallIds :
        LET cl == call[c] IN
        (cl.kind = "bulk_get" /\ cl.pc = "returned") =>
            /\ Len(cl.out) = cl.n
            /\ \A i \in 1..cl.n :
                  /\ IsFinal(task[c][i])
                  /\ cl.out[i] = <<i, task[c][i].outcome>>

\* urls[1] completed before urls[0], with different outcomes
C5_Witness ==
    \E c \in CallIds :
        /\ call[c].kind = "bulk_get" /\ call[c].pc = "returned"
        /\ call[c].completed = <<2, 1>>
        /\ call[c].out = <<<<1, "status">>, <<2, "ok">>>>

\* position of x in the sequence s (0 when absent)
Pos(s, x) == IF \E k \in 1..Len(s) : s[k] = x
             THEN CHOOSE k \in 1..Len(s) : s[k] = x ELSE 0

\* one outcome per url, each only once its fetch has completed
GenOnePerUrl(c) ==
    LET cl == call[c] IN
    /\ \A p \in 1..Len(cl.out) :
          /\ cl.out[p][1] \in 1..cl.n
          /\ Pos(cl.completed, cl.out[p][1]) > 0
          /\ IsFinal(task[c][cl.out[p][1]])
          /\ \A q \in 1..Len(cl.out) : cl.out[p][1] = cl.out[q][1] => p = q
    /\ cl.pc = "finished" => Len(cl.out) = cl.n
    /\ Len(cl.out) = cl.n => cl.pc \in {"finished", "abandoned"}

\* C6 as stated: bulk_get_generator yields one outcome per url, each after
\* its fetch completed, in the order in which the fetches completed (looked
\* at for the instances that do send requests, max_retries >= 1).
C6_CompletionOrder ==
    \A c \in CallIds :
        LET cl == call[c] IN
        (cl.kind = "generator" /\ max_retries >= 1) =>
            /\ GenOnePerUrl(c)
            /\ \A p, q \in 1..Len(cl.out) :
                  p < q => Pos(cl.completed, cl.out[p][1]) < Pos(cl.completed, cl.out[q][1])

\* C6 (amended): one outcome per url, each after its fetch completed; the
\* outcomes come in the order of the asyncio.wait returns that found them
\* complete, fetches found by an earlier return having completed earlier;
\* those found complete by the same return come in any order.
C6_CompletionOrderByWait ==
    \A c \in CallIds :
        LET cl == call[c] IN
        cl.kind = "generator" =>
            /\ GenOnePerUrl(c)
            /\ \A p, q \in 1..Len(cl.out) :
                  p < q =>
                     /\ cl.out[p][3] <= cl.out[q][3]
                     /\ cl.out[p][3] < cl.out[q][3] =>
                           Pos(cl.completed, cl.out[p][1]) < Pos(cl.completed, cl.out[q][1])

\* the second url completed first and was yielded first, by an earlier wait
C6_Witness ==
    \E c \in CallIds :
        /\ call[c].kind = "generator" /\ call[c].pc = "finished"
        /\ call[c].completed = <<2, 1>>
        /\ call[c].out = <<<<2, "ok", 1>>, <<1, "status", 2>>>>

GenCalls == {c \in CallIds : call[c].kind = "generator"}

AllScheduled(c) == \A i \in 1..call[c].n : task[c][i].pc # "none"

NoneCancelled(c) == \A i \in UrlIdx : task[c][i].pc # "cancelled"

\* C7: bulk_get_generator has made the task of every url before its first
\* outcome is yielded; no task is ever cancelled; and once the consumer has
\* stopped, every fetch still comes to its final outcome.
C7_AllScheduledNoneCancelled ==
    /\ [](\A c \in GenCalls : call[c].out # <<>> => AllScheduled(c))
    /\ [](\A c \in GenCalls : NoneCancelled(c))
    /\ \A c \in CallIds :
          (call[c].pc = "abandoned") ~> AllFinal(c, 0, call[c].n)

\* the consumer stopped after one outcome while the other fetch is on the wire
C7_Witness ==
    \E c \in GenCalls :
        /\ call[c].pc = "abandoned"
        /\ Len(call[c].out) = 1
        /\ \E i \in 1..call[c].n : task[c][i].pc = "request"

StreamCalls == {c \in CallIds : call[c].kind = "stream"}

\* C8: bulk_get_stream(urls, batch_size = k), k >= 1 (also k = 2 * C >= 1
\* by default): never more than k of its requests in flight, and the
\* sequence ends after exactly len(urls) outcomes.
C8_StreamBoundAndCount ==
    \A c \in StreamCalls :
        LET cl == call[c] IN
        cl.batch_size >= 1 =>
            /\ Cardinality(InFlight(c)) <= cl.batch_size
            /\ cl.pc # "raised"
            /\ Len(cl.out) <= cl.n
            /\ cl.pc = "finished" => Len(cl.out) = cl.n
            /\ Len(cl.out) = cl.n => cl.queue = <<>> /\ cl.hi = cl.n

\* two urls streamed with batch_size 1 under concurrency 2: finished with
\* both outcomes
C8_Witness ==
    \E c \in StreamCalls :
        /\ call[c].arg = 1 /\ concurrency = 2 /\ call[c].n = 2
        /\ call[c].pc = "finished"
        /\ Len(call[c].out) = 2

\* C9: bulk_get_stream cuts urls into consecutive batches of batch_size
\* (2 * C when not given) and runs them one after another: a request of a
\* batch is started only when every earlier batch has resolved and all its
\* outcomes have been yielded.
C9_BatchesInSequence ==
    \A c \in StreamCalls :
        LET cl == call[c] IN
        /\ cl.batch_size = IF cl.arg = None THEN 2 * concurrency ELSE cl.arg
        /\ cl.pc \in {"batch", "yield", "abandoned", "finished"} =>
              /\ cl.batch_size >= 1
              /\ cl.lo % cl.batch_size = 0
              /\ cl.hi = Min(cl.lo + cl.batch_size, cl.n)
              /\ TasksOf(c) = 1..cl.hi
              /\ \A i \in 1..cl.lo : IsFinal(task[c][i])
              /\ Len(cl.out) >= cl.lo
              /\ \A k \in 1..cl.lo : cl.out[k][1] = k

\* the second batch is running after the first was yielded
C9_Witness ==
    \E c \in StreamCalls :
        /\ call[c].arg = 1 /\ call[c].lo = 1 /\ call[c].pc = "batch"
        /\ task[c][2].pc = "request"
        /\ Len(call[c].out) = 1

\* request attempts made for the urls of call c
RECURSIVE AttemptsUpTo(_, _)
AttemptsUpTo(c, i) ==
    IF i = 0 THEN 0 ELSE task[c][i].attempts + AttemptsUpTo(c, i - 1)

\* C10: bulk_get([]) returns the empty list and no request is made for it.
C10_EmptyBulkGet ==
    \A c \in CallIds :
        (call[c].kind = "bulk_get" /\ call[c].n = 0) =>
            /\ TasksOf(c) = {}
            /\ AttemptsUpTo(c, MaxUrls) = 0
            /\ ENABLED BulkGetReturn(c) \/ call[c].pc = "returned"
            /\ call[c].pc = "returned" => call[c].out = <<>>

C10_Witness ==
    \E c \in CallIds :
        /\ call[c].kind = "bulk_get" /\ call[c].n = 0
        /\ call[c].pc = "returned" /\ call[c].out = <<>>

\* ----------------------------------------------- bulk_upsert_entries claims
TierOrder == <<"bulk", "per_record", "guarded">>

IsPrefix(s, t) == Len(s) <= Len(t) /\ \A k \in 1..Len(s) : s[k] = t[k]

\* the calls of bulk_upsert_entries made so far with a non-empty batch
UpsertCalls == {u \in Areas : upsert[u].pc # "idle" /\ upsert[u].records # <<>>}

\* the calls that have returned
UpsertReturned == {u \in UpsertCalls : upsert[u].pc = "returned"}

LastTier(f) == f.tiers[Len(f.tiers)]

\* record k of the batch of frame f is in the table with the batch's values
Persisted(f, k) == store[f.records[k].id] = RowOf(f.records[k])

\* the tiers a call has gone through and where it stands agree with the
\* order bulk, per-record, guarded-serial, done
TiersInOrder(f) ==
    /\ f.tiers # <<>> /\ IsPrefix(f.tiers, TierOrder)
    /\ f.pc = "bulk" => f.tiers = <<"bulk">>
    /\ f.pc = "per_record" => f.tiers = <<"bulk", "per_record">>
    /\ f.pc \in {"guarded_lookup", "guarded_save", "guarded_sleep"} =>
            f.tiers = TierOrder
    /\ Len(f.tiers) >= 2 => "bulk" \in f.raised
    /\ Len(f.tiers) = 3 => "per_record" \in f.raised
    /\ f.pc = "returned" => f.count \in 0..Len(f.records)
    /\ (f.pc = "returned" /\ "bulk" \notin f.raised) =>
            f.count = Len(f.records) /\ f.tiers = <<"bulk">>

\* C15: a call of bulk_upsert_entries on a non-empty batch goes through its
\* tiers only in the order bulk, per-record, guarded-serial, each at most
\* once; the per-record tier runs only if the bulk tier raised, the
\* guarded-serial tier only if the connection-level operation of the
\* per-record tier raised; the call always ends by returning a count, and
\* when the bulk tier succeeds the count is len(records) and no other tier
\* has run.
C15_TiersInOrder ==
    /\ [](\A u \in UpsertCalls : TiersInOrder(upsert[u]))
    /\ \A u \in Areas :
            (upsert[u].pc \notin {"idle", "returned"}) ~> (upsert[u].pc = "returned")

\* a call that went through the three tiers and returned a count
C15_Witness ==
    \E u \in UpsertReturned :
        /\ upsert[u].tiers = TierOrder
        /\ upsert[u].raised = {"bulk", "per_record"}
        /\ upsert[u].count = 2

\* the calls whose count comes from the per-record tier and whose batch has
\* exactly one record that breaks a constraint
OneBadPerRecord ==
    {u \in UpsertReturned :
        /\ LastTier(upsert[u]) = "per_record"
        /\ Cardinality({k \in 1..Len(upsert[u].records) : upsert[u].records[k].bad}) = 1}

C18_ConflictTakesIncoming ==
    \A u \in UpsertReturned :
        LET f == upsert[u] IN
        f.tiers = <<"bulk">> =>
            \A k \in 1..Len(f.records) :
                LET r == f.records[k] IN
                (f.before[r.id].present /\ f.before[r.id] # RowOf(r)) =>
                    /\ store[r.id].title = r.val
                    /\ store[r.id].founded_on = r.val

\* C19: after the same record has been upserted twice, each call reporting
\* it written, the table holds one row for its id, with the values of the
\* second upsert.
C19_SecondUpsertWins ==
    \A u \in UpsertReturned :
        LET f == upsert[u] IN
        (/\ f.prev.records = f.records
         /\ f.prev.count = Len(f.records)
         /\ f.count = Len(f.records)) =>
            \A k \in 1..Len(f.records) : Persisted(f, k)

NoMalformed(ar) == \A k \in 1..Len(ar.fetched) : ar.fetched[k][2] # "malformed"

\* C11: search yields exactly one SearchResult per cell; for a cell whose
\* fetch outcome is an error it yields an empty SearchResult and goes on
\* with the remaining cells instead of aborting.
C11_OnePerCell ==
    \A a \in Areas :
        LET ar == area[a] IN
        NoMalformed(ar) =>
            /\ ar.search # "raised"
            /\ Len(ar.yielded) = Len(ar.fetched)
            /\ \A k \in 1..Len(ar.yielded) :
                    /\ ar.yielded[k][1] = ar.fetched[k][1]
                    /\ ar.fetched[k][2] = "error" => ar.yielded[k][2] = 0
            /\ ar.search = "finished" =>
                    Len(ar.yielded) = CellsOf(ar.lat_n_chunks, ar.lng_n_chunks)

\* what the areas 1..n whose task returned have upserted
RECURSIVE SumUpserted(_)
SumUpserted(n) ==
    IF n = 0 THEN 0
    ELSE (IF area[n].pc = "done" THEN area[n].area_upserted ELSE 0) + SumUpserted(n - 1)

AreasIn(pcs) == {a \in Configured : area[a].pc \in pcs}

\* C12: when the task of one area raises, the orchestrator takes the
\* exception as that area's result, leaves the area out of the totals and
\* cancels no sibling: every other area still runs to completion and its
\* result is counted.
C12_AreaFailureIsolated ==
    /\ [](\A a \in Areas : area[a].pc # "cancelled")
    /\ [](orch.pc = "returned" =>
            /\ \A a \in Configured : area[a].pc \in {"done", "raised"}
            /\ orch.total_upserted = SumUpserted(orch.n_areas)
            /\ orch.successful_areas = Cardinality(AreasIn({"done"}))
            /\ orch.failed_areas = Cardinality(AreasIn({"raised"})))
    /\ \A a \in Areas, b \in Areas :
            (area[a].pc = "raised" /\ area[b].pc # "idle")
                ~> (area[b].pc \in {"done", "raised"})

\* area 1 has raised while area 2 is in the middle of an upsert
C12_Witness ==
    /\ area[1].pc = "raised"
    /\ area[2].pc = "upsert" /\ upsert[2].pc = "guarded_save"
    /\ area[2].area_upserted > 0

\* every search request of area a has ended in an error
AlwaysErrors(a) ==
    /\ area[a].fetched # <<>>
    /\ \A k \in 1..Len(area[a].fetched) : area[a].fetched[k][2] = "error"

RECURSIVE SumVisible(_)
SumVisible(ys) == IF ys = <<>> THEN 0 ELSE Head(ys)[2] + SumVisible(Tail(ys))

\* area a has searched, fetched and upserted k records without a failure
SucceedsWith(a, k) ==
    /\ area[a].pc = "done"
    /\ \A j \in 1..Len(area[a].fetched) : area[a].fetched[j][2] = "ok"
    /\ SumVisible(area[a].yielded) = k
    /\ area[a].area_upserted = k

\* C13: with two areas, one whose search requests always end in an error
\* and one that succeeds with 3 records, the run reports 3 upserted records
\* and exactly one failed area, and does not raise.
C13_FaultIsolationScenario ==
    /\ orch.pc # "raised"
    /\ \A a \in Areas, b \in Areas :
        (/\ orch.pc = "returned" /\ orch.n_areas = 2 /\ a # b
         /\ AlwaysErrors(a) /\ SucceedsWith(b, 3)) =>
            /\ orch.total_upserted = 3
            /\ orch.failed_areas = 1
            /\ orch.successful_areas = 1

C13_Witness ==
    /\ orch.pc = "returned" /\ orch.n_areas = 2
    /\ AlwaysErrors(1) /\ SucceedsWith(2, 3)
    /\ orch.total_upserted = 3

\* C14: a run of the orchestrator always completes and never raises,
\* whatever cells, detail batches, upserts and areas fail, and it returns
\* only after every area task has finished.
C14_RunCompletes ==
    /\ [](orch.pc # "raised")
    /\ [](orch.pc = "returned" => \A a \in Configured : IsFinalArea(area[a]))
    /\ (orch.pc = "gather") ~> (orch.pc = "returned")

\* a run has returned with an area that raised and an area whose last
\* upsert went through the three tiers and lost a record
C14_Witness ==
    /\ orch.pc = "returned"
    /\ \E a \in Configured, b \in Configured :
        /\ area[a].pc = "raised"
        /\ area[b].pc = "done"
        /\ upsert[b].tiers = TierOrder
        /\ upsert[b].count < Len(upsert[b].records)

\* ------------------------------------------------ claims C21..C30
\* C21 as stated: an upsert step that meets no failure of the batch mechanism
\* (no connection fault, no failed BEGIN or COMMIT) never hands the batch to
\* the next tier, whatever the records hold.
C21_ContentNeverEscalates ==
    [][\A u \in Areas :
        /\ BulkAttempt(u, FALSE) => upsert'[u].pc = "returned"
        /\ PerRecordAttempt(u, FALSE, FALSE) => upsert'[u].pc = "returned"]_vars

\* C21: without a failure of the batch mechanism the bulk tier hands the
\* batch to the per-record tier exactly when one of its records breaks a
\* constraint (the multi-row statement raises as a whole); the per-record
\* tier never hands the batch on for a record's error, and the guarded tier
\* counts a record's error and stays the last tier.
C21_ContentEscalatesOnlyFromBulk ==
    [][\A u \in Areas :
        /\ BulkAttempt(u, FALSE) =>
                (upsert'[u].pc = "per_record" <=> AnyBad(upsert[u].records))
        /\ PerRecordAttempt(u, FALSE, FALSE) => upsert'[u].pc = "returned"
        /\ GuardedSave(u, FALSE) =>
                upsert'[u].pc \in {"guarded_lookup", "guarded_sleep", "returned"}]_vars

\* a call with a record that breaks a constraint has ended in the
\* per-record tier, which counted the record's error
C21_Witness ==
    \E u \in Areas :
        /\ upsert[u].pc = "returned"
        /\ AnyBad(upsert[u].records)
        /\ upsert[u].tiers = <<"bulk", "per_record">>
        /\ upsert[u].error_count >= 1

\* C22: whatever calls of bulk_upsert_entries have run or are under way, in
\* whatever tier and interleaving, the table holds at most one row for each
\* record id.
C22_OneRowPerId == \A i \in Ids : store[i].rows <= 1

\* two calls are under way at once on the same id, which has a row, one of
\* them in the guarded tier
C22_Witness ==
    /\ upsert[1].pc = "guarded_save"
    /\ upsert[2].pc = "per_record"
    /\ upsert[1].records # <<>>
    /\ upsert[2].records # <<>>
    /\ store[1].rows = 1
    /\ store[1] # OldRow

\* C23: no step of a synchronization run takes a row out of the table: an id
\* that has a row before the step has one after it, also the id of a record
\* that no search returns any more.
C23_NoRecordRemoved ==
    [][\A i \in Ids : store[i].present => store'[i].present]_vars

\* the run has returned after writing records, and the row of the record
\* that no search returned is as it was
C23_Witness ==
    /\ orch.pc = "returned"
    /\ orch.total_upserted >= 2
    /\ \E a \in Areas : "per_record" \in SeqRange(upsert[a].tiers)
    /\ store[StaleId] = OldRow
    /\ Cardinality({i \in Ids : store[i].present}) >= 3

\* the points that divide range into num - 1 equal parts, ends included,
\* over the denominator num - 1
GridPoints(range, num) ==
    {[num |-> range[1] * (num - 1) + k * (range[2] - range[1]), den |-> num - 1] :
        k \in 0..(num - 1)}

Planned(ar) == ar.pc = "search"

C25_DegenerateRejected ==
    \A a \in Areas :
        area[a].pc # "idle" =>
            area[a].lat_n_chunks >= 2 /\ area[a].lng_n_chunks >= 2

RECURSIVE Concat(_)
Concat(q) == IF q = <<>> THEN <<>> ELSE Head(q) \o Concat(Tail(q))

CeilDiv(n, d) == (n + d - 1) \div d

\* C26: get_entries(ids, chunk_size) issues exactly
\* ceil(len(ids) / chunk_size) requests; each carries at most chunk_size
\* ids, the chunks are consecutive slices of ids, and the chunks joined in
\* order give ids back, so that every id is in exactly one request.
C26_ConsecutiveChunks ==
    entries.pc \in {"reading", "finished"} =>
        LET ids == entries.entry_ids
            cs == entries.chunk_size
            q == entries.id_strs
        IN /\ Len(q) = CeilDiv(Len(ids), cs)
           /\ \A c \in 1..Len(q) :
                /\ Len(q[c]) <= cs
                /\ Len(q[c]) >= 1
                /\ q[c] = SubSeq(ids, (c - 1) * cs + 1, (c - 1) * cs + Len(q[c]))
           /\ Concat(q) = ids

\* four ids in chunks of three: a full chunk and a chunk of one
C26_Witness ==
    /\ entries.pc = "finished"
    /\ entries.entry_ids = <<1, 2, 3, 4>>
    /\ entries.chunk_size = 3
    /\ entries.id_strs = << <<1, 2, 3>>, <<4>> >>

\* C27: in get_entries a chunk whose fetch ended in an error yields an
\* empty batch for that chunk and does not end the generator, which goes on
\* to the batches of the chunks that are left (until a body that does not
\* validate ends it).
C27_ErrorChunkYieldsEmpty ==
    /\ [](\A p \in 1..Len(entries.fetched) :
            entries.fetched[p][2] = "error" =>
                /\ Len(entries.yielded) >= p
                /\ entries.yielded[p] = [chunk |-> entries.fetched[p][1], batch |-> <<>>])
    /\ [](entries.pc = "raised" /\ entries.fetched # <<>> =>
            entries.fetched[Len(entries.fetched)][2] = "malformed")
    /\ \A k \in 1..MaxEntryIds :
        (entries.pc = "reading" /\ k \in entries.pending
            /\ entries.fetched # <<>>
            /\ entries.fetched[Len(entries.fetched)][2] = "error")
        ~> (k \notin entries.pending \/ entries.pc = "raised")

\* the first chunk ended in an error, the second chunk was yielded after it
C27_Witness ==
    /\ entries.pc = "finished"
    /\ Len(entries.fetched) = 2
    /\ entries.fetched[1][2] = "error"
    /\ entries.yielded[1].batch = <<>>
    /\ entries.yielded[2].batch # <<>>

\* C28: a response that cannot be decoded (2xx, a JSON content type, a body
\* that is not JSON) is not retried: get_with_retries makes no further
\* attempt for that url, the task has its final outcome at once.
C28_DecodeNotRetried ==
    [][\A c \in CallIds, i \in UrlIdx :
        TaskRespond(c, i, "decode") => IsFinal(task'[c][i])]_vars

\* the visible counts of the cells whose search result the areas in `as`
\* have taken
VisibleCounts(as) ==
    UNION {{area[a].yielded[k][2] : k \in 1..Len(area[a].yielded)} : a \in as}
        \cup {0}

\* C29: the totals of a run are the sum of the upsert counts of the areas
\* whose task returned normally, and the largest visible count of a single
\* cell over those areas; an area whose task raised adds to neither.  An
\* area's count grows only by what a returned bulk_upsert_entries call
\* reports.
C29_TotalsOverReturnedAreas ==
    /\ [](orch.pc = "returned" =>
            /\ orch.total_upserted = SumUpserted(orch.n_areas)
            /\ \A v \in VisibleCounts(AreasIn({"done"})) : orch.max_numbers >= v
            /\ orch.max_numbers \in VisibleCounts(AreasIn({"done"})))
    /\ [][\A a \in Areas :
            area'[a].area_upserted # area[a].area_upserted =>
                /\ upsert[a].pc = "returned"
                /\ area'[a].area_upserted = area[a].area_upserted + upsert[a].count]_vars

\* a run has returned with an area that raised after it had upserted
\* records and seen the largest cell, and an area that returned
C29_Witness ==
    /\ orch.pc = "returned" /\ orch.n_areas = 2
    /\ area[1].pc = "raised" /\ area[1].area_upserted = 2
    /\ area[1].max_numbers = 2
    /\ area[2].pc = "done" /\ area[2].area_upserted = 1
    /\ orch.total_upserted = 1
    /\ orch.max_numbers = 1

\* the run of the one area around Berlin, 3 by 2 grid points, in which every
\* cell's search returned one visible id, every detail fetch returned the
\* record of its id, and the database answered every statement
BerlinRun ==
    /\ orch.pc = "returned" /\ orch.n_areas = 1
    /\ area[1].lats = BerlinLats /\ area[1].lngs = BerlinLngs
    /\ area[1].lat_n_chunks = 3 /\ area[1].lng_n_chunks = 2
    /\ \A k \in 1..Len(area[1].fetched) : area[1].fetched[k][2] = "ok"
    /\ \A k \in 1..Len(area[1].yielded) : area[1].yielded[k][2] = 1
    /\ upsert[1].given = SumVisible(area[1].yielded)
    /\ ~upsert[1].faulted

\* C30: for the single area berlin, lats (52.4, 52.6), lngs (13.3, 13.5),
\* 3 latitude and 2 longitude chunks, the plan has 2 cells; with one visible
\* id per cell and one record per id the run reports 2 upserted records and
\* a maximum of 1 visible record per cell.
C30_BerlinScenario ==
    BerlinRun =>
        /\ Len(area[1].search_params) = 2
        /\ Len(area[1].yielded) = 2
        /\ orch.total_upserted = 2
        /\ orch.max_numbers = 1
        /\ orch.successful_areas = 1

C30_Witness ==
    /\ BerlinRun
    /\ orch.total_upserted = 2
    /\ area[1].search_params[2].lat_min = [num |-> 1050, den |-> 2]
    /\ Cardinality({i \in Ids : store[i].present /\ i # StaleId}) = 2

\* ------------------------------------------------ claims C31..C40
\* the clients that have been made and not closed
OpenClients == (1..clients_made) \ closed

StageOver == stage.pc \in {"raised", "finished"}

StageTasksRunning ==
    {i \in UrlIdx : task[StageCall][i].pc \in {"waiting", "request", "sleep"}}

\* C37: when a stage has released its BulkHttpClient, by its normal end or
\* by an exception that leaves it while fetches are pending, none of the
\* fetch tasks it started is still running, and no request attempt is ever
\* made on a client that has been closed.
C37_NoTaskOutlivesStage ==
    /\ StageOver => StageTasksRunning = {}
    /\ \A i \in UrlIdx : task[StageCall][i].outcome # "closed"

\* the outcomes of generator call c that are complete and held in their
\* task until the consumer is handed them
HeldOutcomes(c) ==
    {i \in 1..call[c].n :
        /\ IsFinal(task[c][i])
        /\ \A k \in 1..Len(call[c].out) : call[c].out[k][1] # i}

\* C32: the fetched outcomes that a bulk_get_generator call holds at any
\* time, those complete and not yet consumed plus those in flight, are at
\* most C, however many urls the call was given.
C32_HeldOutcomesBounded ==
    \A c \in GenCalls :
        Cardinality(HeldOutcomes(c)) + Cardinality(InFlight(c)) <= concurrency

\* C33: a detail batch of a cell that fails to decode does not fail the
\* area: process_area catches the exception and goes on with the next
\* cell, the count of the area is left as it was, only a failing search
\* makes the task of an area raise, every upsert that returns, before or
\* after the failure, is added to the count, and the area comes to its end.
C33_DecodeFailureSkipsCell ==
    /\ [][\A a \in Areas :
            area'[a].undecoded # area[a].undecoded =>
                /\ area'[a].pc = "search"
                /\ area'[a].area_upserted = area[a].area_upserted
                /\ area'[a].pending = area[a].pending]_vars
    /\ [](\A a \in Areas : area[a].pc = "raised" => area[a].search = "raised")
    /\ [][\A a \in Areas :
            (area[a].pc = "upsert" /\ area'[a].pc # "upsert") =>
                area'[a].area_upserted = area[a].area_upserted + upsert[a].count]_vars
    /\ \A a \in Areas :
            (area[a].undecoded # {}) ~> (area[a].pc \in {"done", "raised"})

\* an area has returned with a count above 0 although the detail batch of
\* the first of its two cells did not decode
C33_Witness ==
    \E a \in Areas :
        /\ area[a].pc = "done"
        /\ Len(area[a].yielded) = 2
        /\ area[a].undecoded = {area[a].yielded[1][1]}
        /\ area[a].area_upserted > 0

\* C34: in the guarded tier, a record that is processed without a failure
\* leaves a row of its id that carries the record's value in every field,
\* whether the row was there before or not; a record that fails is counted
\* as an error and the tier goes on with the next record.
C34_GuardedUpserts ==
    [][\A u \in Areas :
        LET f == upsert[u]
            r == f.records[f.idx]
        IN
        f.pc \in {"guarded_lookup", "guarded_save"} =>
            /\ upsert'[u].success_count = f.success_count + 1 =>
                    store'[r.id] = RowOf(r)
            /\ upsert'[u].error_count = f.error_count + 1 =>
                    /\ upsert'[u].pc = "guarded_sleep"
                    /\ upsert'[u].idx = f.idx]_vars

\* the ids of the records of a batch, in the order of the batch
IdsOf(recs) == [k \in 1..Len(recs) |-> recs[k].id]

\* C35: every batch that a sync flow hands to bulk_upsert_entries carries
\* each record id at most once.
C35_BatchesWithoutDuplicates ==
    \A u \in Areas :
        \A j \in 1..Len(upsert[u].records), k \in 1..Len(upsert[u].records) :
            j # k => IdsOf(upsert[u].records)[j] # IdsOf(upsert[u].records)[k]

\* the urls of call c that hold a slot of the call's semaphore: admitted and
\* not yet at their final outcome, on the wire or in a backoff sleep
SlotHolders(c) == {i \in UrlIdx : task[c][i].pc \in {"request", "sleep"}}

GatedCalls == {c \in CallIds : call[c].kind \in {"bulk_get", "generator"}}

\* C36: within one bulk_get or bulk_get_generator call at most C urls hold
\* an admission slot at any time; a url holds its slot from its admission
\* through every attempt and every backoff sleep, so that the free slots
\* and the holders always add up to C, and it gives the slot back exactly
\* once, when it has its final outcome.
C36_SlotHeldToFinalOutcome ==
    \A c \in GatedCalls :
        LET cl == call[c] IN
        /\ Cardinality(SlotHolders(c)) <= concurrency
        /\ cl.sem + Cardinality(SlotHolders(c)) = concurrency
        /\ \A i \in UrlIdx :
              Cardinality({k \in 1..Len(cl.completed) : cl.completed[k] = i})
                  = IF IsFinal(task[c][i]) THEN 1 ELSE 0

\* with C = 1 the first url sleeps between two attempts and keeps the only
\* slot, and the second url still waits for its admission
C36_Witness ==
    \E c \in GatedCalls :
        /\ concurrency = 1
        /\ task[c][1].pc = "sleep"
        /\ task[c][2].pc = "waiting"
        /\ call[c].sem = 0

BulkGetCalls == {c \in CallIds : call[c].kind = "bulk_get"}

\* C38: with C >= 1 every url given to bulk_get is admitted in the end and
\* bulk_get returns in the end; a bulk_get over a list that is not empty
\* returns only with C >= 1.
C38_BulkGetTerminates ==
    /\ \A c \in CallIds, i \in UrlIdx :
            (concurrency >= 1 /\ c \in BulkGetCalls /\ task[c][i].pc = "waiting")
                ~> (task[c][i].pc \in {"request", "sleep", "done"})
    /\ \A c \in CallIds :
            (concurrency >= 1 /\ c \in BulkGetCalls) ~> (call[c].pc = "returned")
    /\ [](\A c \in BulkGetCalls :
            (call[c].pc = "returned" /\ call[c].n > 0) => concurrency >= 1)

\* a bulk_get over 2 urls has returned with C = 1, the second url admitted
\* after the first one had used its slot for two attempts
C38_Witness ==
    \E c \in BulkGetCalls :
        /\ concurrency = 1
        /\ call[c].n = 2
        /\ call[c].pc = "returned"
        /\ task[c][1].attempts = 2
        /\ call[c].completed = <<1, 2>>

\* C39: bulk_get_stream hands over the outcomes in the order of urls: the
\* k-th outcome yielded is that of urls[k], and the outcomes of the batch
\* that wait to be yielded follow in the same order, whatever the order in
\* which the fetches completed.
C39_StreamInInputOrder ==
    \A c \in StreamCalls :
        LET cl == call[c] IN
        /\ \A k \in 1..Len(cl.out) : cl.out[k] = <<k, task[c][k].outcome>>
        /\ \A k \in 1..Len(cl.queue) :
              cl.queue[k] = <<Len(cl.out) + k, task[c][Len(cl.out) + k].outcome>>

\* both urls of one batch have been yielded, the first one first, although
\* the fetch of the second completed before the fetch of the first
C39_Witness ==
    \E c \in StreamCalls :
        /\ call[c].completed = <<2, 1>>
        /\ call[c].out = <<<<1, "status">>, <<2, "ok">>>>

====
